---- MODULE Spec2Model ----
(***************************************************************************)
(* Verification model of the Digital Being skill registry and activities.  *)
(*                                                                         *)
(* The skill registry (skills/__init__.py), the skill clients under        *)
(* skills/ and the activities under activities/ are modelled as a state    *)
(* machine.  Every `await` of an activity is one step of the model; the    *)
(* synchronous code up to the next `await` belongs to the same step.       *)
(* Calls into code that is not part of the sources (the memory store, the  *)
(* chat skill, the X API skill, the Composio toolset, trigger_activity)    *)
(* return any of their possible outcomes, an exception included.           *)
(***************************************************************************)
EXTENDS Integers, Sequences, FiniteSets, TLC

VARIABLES
    package,            \* how far the import of the skills package has come
    stored_names,       \* the names a successful registration or alias has stored
    last_lookup,        \* the last attribute lookup on the registry and its outcome
    failed_aliases,     \* the latest register_alias call whose original was not
                        \* registered: <<alias, original, entry of alias at the
                        \* call>>, kept until the alias name is stored again
    bound_aliases,      \* the register_alias calls that created an alias: <<alias,
                        \* original, instance of original at the call>>, kept
                        \* until the alias name is stored again
    register_raised,    \* the exception the last register_skill_module call
                        \* left to its caller, "" if it returned
    skill_modules,      \* SkillRegistry._skill_modules (the module names held)
    skill_instances,    \* SkillRegistry._skill_instances: name -> instance
    next_instance,      \* number of the next instance a class instantiation creates
    alias_links,        \* <<alias, original>> pairs made by register_alias whose
                        \* two names have not been stored again since
    skill_state,        \* fields of the skill instances that live in the sources
    memory,             \* the memory store
    now,                \* time.time()
    proc,               \* the running executions of execute(), one record each
    runs                \* how many executions have been started

vars == <<package, stored_names, last_lookup, failed_aliases, bound_aliases,
          register_raised, skill_modules, skill_instances, next_instance, alias_links,
          skill_state, memory, now, proc, runs>>

(***************************************************************************)
(* Bounds of the model.                                                    *)
(***************************************************************************)
MaxInstances == 5       \* instances a behaviour may create from classes
MaxTicks == 1           \* how often the clock advances in a behaviour
NumArticles == 2        \* distinct articles the search API may return
MaxFetched == 2         \* articles one execution of fetch_news may receive
MaxRuns == 1            \* executions of activities in a behaviour
MaxFaults == 1          \* failures of skill and memory calls in one execution
MaxCalls == 3           \* calls of generate_image on one instance in a behaviour
MaxQueued == 6          \* promotions a sequence of executions may queue
MaxWeeks == 4           \* repost intervals that pass in a sequence of promotions

(***************************************************************************)
(* Skill registry: skills/__init__.py                                      *)
(***************************************************************************)
NoInst == <<"none", 0>>
ChatInst == <<"chat", 0>>          \* skills.skill_chat.chat_skill
SerperInst == <<"serper", 0>>      \* skills.skill_serper_api.serper_api_skill
XApiInst == <<"x_api", 0>>         \* skills.skill_x_api.x_api_skill, if that module exists
AdapterImage == <<"image", 1>>     \* skills.skill_image_generation.image_generation_skill
LinkedInImage == <<"image", 2>>    \* PostLinkedInActivity.image_skill
RegistryImage == <<"image", 3>>    \* the instance SkillRegistry.__init__ creates
FirstFresh == RegistryImage[2] + 1

ImageInstances == {<<"image", k>> : k \in 1..MaxInstances}
Instances == {ChatInst, SerperInst, XApiInst} \cup ImageInstances

RegNames == {"chat_skill", "image_generation_skill", "lite_llm_skill",
             "serper_api_skill", "x_api_skill", "ImageGenerationSkill"}

ModuleNames == {"skill_chat", "skill_generate_image", "skill_serper_api",
                "skill_x_api"}

\* getattr(module, attr_name): an instance of the module, a class, or nothing.
ModuleAttr(module_name, attr_name) ==
    CASE module_name = "skill_chat" /\ attr_name = "chat_skill"
            -> [kind |-> "instance", inst |-> ChatInst]
      [] module_name = "skill_generate_image" /\ attr_name = "ImageGenerationSkill"
            -> [kind |-> "class", inst |-> NoInst]
      [] module_name = "skill_serper_api" /\ attr_name = "serper_api_skill"
            -> [kind |-> "instance", inst |-> SerperInst]
      [] module_name = "skill_x_api" /\ attr_name = "x_api_skill"
            -> [kind |-> "instance", inst |-> XApiInst]
      [] OTHER -> [kind |-> "missing", inst |-> NoInst]

EmptyRegistry == [n \in RegNames |-> NoInst]

\* The name register_skill_module stores under: `if not instance_name`.
StoredName(attr_name, instance_name) ==
    IF instance_name = "" THEN attr_name ELSE instance_name

\* The init_args of a call: none given, or the configuration of __init__.
InitArgs == {"", "config"}

\* What ImageGenerationSkill.__init__ does when it is called with a config:
\* it returns, or api_manager.register_required_keys raises, an ImportError
\* or AttributeError ("caught") or any other exception ("raised").
ConstructOutcomes == {"ok", "caught", "raised"}

\* `attr(*args, **kwargs)` of a class: without init_args the call lacks the
\* argument `config` and Python raises a TypeError before __init__ runs.
Construct(init_args, construct) ==
    IF init_args = "" THEN "TypeError" ELSE construct

\* Whether the call reaches `self._skill_instances[instance_name] = ...`.
Stores(module_name, attr_name, init_args, import_ok, construct) ==
    /\ import_ok
    /\ ModuleAttr(module_name, attr_name).kind # "missing"
    /\ ModuleAttr(module_name, attr_name).kind = "class"
          => Construct(init_args, construct) = "ok"

\* The exception that leaves register_skill_module, "" when it returns:
\* `except (ImportError, AttributeError)` catches no other exception.
RegisterRaises(module_name, attr_name, init_args, import_ok, construct) ==
    IF import_ok /\ ModuleAttr(module_name, attr_name).kind = "class"
    THEN CASE Construct(init_args, construct) = "TypeError"
                -> "TypeError: ImageGenerationSkill.__init__() missing 1 required positional argument: 'config'"
           [] Construct(init_args, construct) = "raised"
                -> "exception of register_required_keys"
           [] OTHER -> ""
    ELSE ""

\* A buggy variant: the default name is ignored in favour of the module's.
RegisterInstances_wrongname(reg, module_name, attr_name, instance_name, init_args, import_ok, construct, fresh) ==
    IF ~Stores(module_name, attr_name, init_args, import_ok, construct)
    THEN reg
    ELSE [reg EXCEPT !["ImageGenerationSkill"] =
            IF ModuleAttr(module_name, attr_name).kind = "class"
            THEN <<"image", fresh>> ELSE ModuleAttr(module_name, attr_name).inst]

\* A buggy variant: an instance is kept under one name only, the latest.
RegisterInstances_exclusive(reg, module_name, attr_name, instance_name, init_args, import_ok, construct, fresh) ==
    IF ~Stores(module_name, attr_name, init_args, import_ok, construct)
    THEN reg
    ELSE LET inst == IF ModuleAttr(module_name, attr_name).kind = "class"
                     THEN <<"image", fresh>> ELSE ModuleAttr(module_name, attr_name).inst
         IN  [n \in RegNames |->
                IF n = StoredName(attr_name, instance_name) THEN inst
                ELSE IF reg[n] = inst THEN NoInst ELSE reg[n]]

\* A buggy variant: the names that shared the replaced instance follow the
\* name to its new instance.
RegisterInstances_rebinding(reg, module_name, attr_name, instance_name, init_args, import_ok, construct, fresh) ==
    IF ~Stores(module_name, attr_name, init_args, import_ok, construct)
    THEN reg
    ELSE LET name == StoredName(attr_name, instance_name)
             inst == IF ModuleAttr(module_name, attr_name).kind = "class"
                     THEN <<"image", fresh>> ELSE ModuleAttr(module_name, attr_name).inst
         IN  [n \in RegNames |->
                IF n = name \/ (reg[name] # NoInst /\ reg[n] = reg[name])
                THEN inst ELSE reg[n]]

\* _skill_instances after register_skill_module(module_name, attr_name,
\* instance_name, init_args); import_ok is whether import_module succeeds,
\* construct what the constructor does, fresh numbers the instance created
\* when the attribute is a class.
RegisterInstances(reg, module_name, attr_name, instance_name, init_args, import_ok, construct, fresh) ==
    IF ~Stores(module_name, attr_name, init_args, import_ok, construct)
    THEN reg      \* an exception before the store: nothing is stored
    ELSE [reg EXCEPT ![StoredName(attr_name, instance_name)] =
            IF ModuleAttr(module_name, attr_name).kind = "class"
            THEN <<"image", fresh>> ELSE ModuleAttr(module_name, attr_name).inst]

\* A buggy variant: the alias is bound to a new object instead of the original's.
AliasInstances_copy(reg, alias_name, original_name) ==
    IF reg[original_name] # NoInst
    THEN [reg EXCEPT ![alias_name] = <<reg[original_name][1], reg[original_name][2] + 1>>]
    ELSE reg

\* register_alias without the membership test: the alias takes whatever the
\* original has, an absent entry included.
AliasInstances_unchecked(reg, alias_name, original_name) ==
    [reg EXCEPT ![alias_name] = reg[original_name]]

\* _skill_instances after register_alias(alias_name, original_name).
AliasInstances(reg, alias_name, original_name) ==
    IF reg[original_name] # NoInst
    THEN [reg EXCEPT ![alias_name] = reg[original_name]]
    ELSE reg

\* SkillRegistry.__init__ with every standard module importable.
InitialRegistry ==
    LET r1 == RegisterInstances(EmptyRegistry, "skill_chat", "chat_skill", "", "",
                                TRUE, "ok", 0)
        r2 == RegisterInstances(r1, "skill_generate_image", "ImageGenerationSkill",
                                "image_generation_skill", "config", TRUE, "ok",
                                RegistryImage[2])
        r3 == AliasInstances(r2, "lite_llm_skill", "chat_skill")
    IN  RegisterInstances(r3, "skill_serper_api", "serper_api_skill", "", "",
                          TRUE, "ok", 0)

\* SkillRegistry.__getattr__
Registered(name) == skill_instances[name] # NoInst
Lookup(name) == skill_instances[name]
\* The text of the AttributeError, f"No skill named '{name}' is registered",
\* for the names of RegNames.
NotRegisteredError(name) ==
    CASE name = "x_api_skill" -> "No skill named 'x_api_skill' is registered"
      [] name = "chat_skill" -> "No skill named 'chat_skill' is registered"
      [] name = "lite_llm_skill" -> "No skill named 'lite_llm_skill' is registered"
      [] name = "serper_api_skill" -> "No skill named 'serper_api_skill' is registered"
      [] name = "image_generation_skill"
            -> "No skill named 'image_generation_skill' is registered"
      [] name = "ImageGenerationSkill"
            -> "No skill named 'ImageGenerationSkill' is registered"

\* `registry.<name>`: the instance returned or the AttributeError raised, and
\* whether a registration or an alias had stored the name.
GetAttr(name) ==
    IF Registered(name)
    THEN [name |-> name, ok |-> TRUE, inst |-> Lookup(name), error |-> "",
          was_stored |-> name \in stored_names]
    ELSE [name |-> name, ok |-> FALSE, inst |-> NoInst,
          error |-> NotRegisteredError(name), was_stored |-> name \in stored_names]
NoLookup == [name |-> "", ok |-> FALSE, inst |-> NoInst, error |-> "",
             was_stored |-> FALSE]

\* The names SkillRegistry.__init__ stores when every module imports.
InitialNames == {"chat_skill", "image_generation_skill", "lite_llm_skill",
                 "serper_api_skill"}

\* The pairs of alias_links that do not mention name.
LinksWithout(name) == {l \in alias_links : l[1] # name /\ l[2] # name}

\* register_skill_module(module_name, attr_name, instance_name, init_args):
\* the module is recorded as soon as it is imported; an exception of the
\* constructor that is not caught leaves the call with nothing stored.
RegisterSkillModule(module_name, attr_name, instance_name, init_args, import_ok, construct) ==
    LET stores == Stores(module_name, attr_name, init_args, import_ok, construct)
        name == StoredName(attr_name, instance_name)
    IN
    /\ stores /\ ModuleAttr(module_name, attr_name).kind = "class"
          => next_instance <= MaxInstances
    /\ skill_modules' = IF import_ok THEN skill_modules \cup {module_name}
                                     ELSE skill_modules
    /\ skill_instances' = RegisterInstances(skill_instances, module_name, attr_name,
                                            instance_name, init_args, import_ok,
                                            construct, next_instance)
    /\ register_raised' = RegisterRaises(module_name, attr_name, init_args,
                                         import_ok, construct)
    /\ next_instance' = IF stores /\ ModuleAttr(module_name, attr_name).kind = "class"
                        THEN next_instance + 1 ELSE next_instance
    /\ alias_links' = IF stores THEN LinksWithout(name) ELSE alias_links
    /\ stored_names' = IF stores THEN stored_names \cup {name} ELSE stored_names
    /\ failed_aliases' = IF stores THEN {f \in failed_aliases : f[1] # name}
                                   ELSE failed_aliases
    /\ bound_aliases' = IF stores THEN {f \in bound_aliases : f[1] # name}
                                  ELSE bound_aliases
    /\ UNCHANGED <<last_lookup, skill_state, memory, now, proc, runs>>

\* register_alias(alias_name, original_name)
RegisterAlias(alias_name, original_name) ==
    /\ skill_instances' = AliasInstances(skill_instances, alias_name, original_name)
    /\ alias_links' = IF Registered(original_name)
                      THEN LinksWithout(alias_name) \cup {<<alias_name, original_name>>}
                      ELSE alias_links
    /\ stored_names' = IF original_name \in stored_names
                       THEN stored_names \cup {alias_name} ELSE stored_names
    /\ UNCHANGED <<last_lookup, register_raised, skill_modules, next_instance,
                   skill_state, memory, now, proc, runs>>

(***************************************************************************)
(* Articles, the memory store and ActivityResult                           *)
(***************************************************************************)
ArticleIds == 1..NumArticles
\* The URL of article 1 names the category Resources, the title of article 3
\* Community, and the URL of article 4 both Resources and Product.
Titles == <<"T1", "T2", "Community day", "T4">>
Urls == <<"resources/u1", "u2", "u3", "product/resources/u4">>

\* An article as the activities pass it around (a dict in the sources); ""
\* stands for a missing key.  Article 1 carries an image; the others come
\* without imageUrl, for which search_news stores None.
NoneValue == "<None>"
NoArticle == [title |-> "", url |-> "", image_url |-> "", categories |-> <<>>,
              category |-> "", relevance_score |-> 0, type |-> ""]
SearchArticle(i) == [NoArticle EXCEPT !.title = Titles[i], !.url = Urls[i],
                                      !.image_url = IF i = 1 THEN "i1" ELSE NoneValue]

EmptyMemory == [keys |-> {}, social_share_queue |-> <<>>, recent_tweets |-> <<>>,
                givecare_promoted_articles |-> <<>>]
ValueKeys == {"social_share_queue", "recent_tweets", "givecare_promoted_articles"}

\* Memory.get(key): None is the empty sequence of an absent key.
MemoryGet(key) == IF key \in memory.keys THEN memory[key] ELSE <<>>
\* Memory.store(key, value, ttl); the keys no activity reads keep no value.
MemoryStore(m, key, value) ==
    IF key \in ValueKeys THEN [m EXCEPT !.keys = @ \cup {key}, ![key] = value]
                         ELSE [m EXCEPT !.keys = @ \cup {key}]
\* Memory.delete(key)
MemoryDelete(m, key) ==
    IF key \in ValueKeys THEN [m EXCEPT !.keys = @ \ {key}, ![key] = <<>>]
                         ELSE [m EXCEPT !.keys = @ \ {key}]

\* None as the error of a result, and as the exception of an execution that
\* saw none.
NoError == "<None>"
\* A data payload: the dict an activity returns, by the keys the properties
\* read.
NoData == [skipped |-> FALSE, status |-> "", type |-> "", article |-> NoArticle,
           actions_taken |-> <<>>]
\* None as the data of a result.
NoPayload == [NoData EXCEPT !.status = "<None>"]
\* ActivityResult(success=..., data=..., error=...): data and error are None
\* unless the caller passes them; has_data is `data is not None`.
ActivityResult(success, data, error) ==
    [success |-> success, has_data |-> data # NoPayload, data |-> data, error |-> error]
\* ActivityResult.success_result(data)
success_result(data) == ActivityResult(TRUE, data, NoError)
\* ActivityResult.error_result(message)
error_result(message) == ActivityResult(FALSE, NoPayload, message)
NoResult == ActivityResult(FALSE, NoPayload, NoError)

(***************************************************************************)
(* Executions of execute(shared_data)                                      *)
(***************************************************************************)
Procs == {"p1", "p2"}

\* shared_data: None, or a mapping; "" is a key that is not set.
NoneData == [is_none |-> TRUE, tweet_text |-> "", trigger_type |-> "", topic |-> ""]
SharedData(tweet_text, trigger_type, topic) ==
    [is_none |-> FALSE, tweet_text |-> tweet_text, trigger_type |-> trigger_type,
     topic |-> topic]
\* `if shared_data:`: None and the empty mapping are false.
Truthy(shared_data) ==
    /\ ~shared_data.is_none
    /\ <<shared_data.tweet_text, shared_data.trigger_type, shared_data.topic>>
          # <<"", "", "">>
NoneTypeError == "'NoneType' object has no attribute 'get'"

\* The ghost field queued: how often the executions so far have queued the
\* article of a url as a promotion of a type.
NoneQueued == [k \in {Urls[i] : i \in ArticleIds} \X {"new", "repost"} |-> 0]

Idle == [pc |-> "idle", activity |-> "", shared_data |-> NoneData, result |-> NoResult,
         calls |-> {}, init_failed |-> "", init_false |-> {}, raised |-> {},
         swallowed |-> {}, boundary_exc |-> NoError, posted |-> <<>>,
         queue_before |-> <<>>, queue |-> <<>>, article |-> NoArticle, text |-> <<>>,
         articles |-> <<>>, pending |-> <<>>, stores |-> <<>>, topics |-> 0,
         fetched |-> 0, promoted |-> <<>>, eligible |-> <<>>, index |-> 0,
         best |-> 0, best_score |-> -10, promotion_type |-> "", declined |-> "",
         source |-> "", image_url |-> "", has_articles |-> FALSE, faults |-> 0,
         queue_at_start |-> <<>>, read_time |-> 0, failed |-> {},
         writes |-> {}, queued |-> NoneQueued, memory_failed |-> FALSE,
         queue_read |-> <<>>, awaiting |-> "", format |-> "", hashtags |-> ""]

\* The record of a call in the ghost field calls.
Called(l, call) == [l EXCEPT !.calls = @ \cup {call}]
\* `return result`
Return(l, result) == [l EXCEPT !.pc = "done", !.result = result]
\* A buggy variant: the failed initialization is logged and execute goes on to
\* return a success.
InitFailed_success(l, skill, message) ==
    [l EXCEPT !.pc = "done", !.result = success_result(NoData), !.init_failed = skill,
              !.init_false = @ \cup {skill}, !.faults = @ + 1]

\* A buggy variant: the failure is written to memory before execute returns.
InitFailed_recording(l, skill, message) ==
    [l EXCEPT !.pc = "done", !.result = error_result(message), !.init_failed = skill,
              !.init_false = @ \cup {skill}, !.faults = @ + 1,
              !.calls = @ \cup {<<"memory", "store">>}]

\* A buggy variant: after the False, execute awaits the same initialize() again.
InitFailed_retry(l, skill, message) ==
    [l EXCEPT !.init_failed = skill, !.init_false = @ \cup {skill}, !.faults = @ + 1]

\* A skill's initialize() returned False and execute returns error_result(message).
InitFailed(l, skill, message) ==
    [l EXCEPT !.pc = "done", !.result = error_result(message), !.init_failed = skill,
              !.init_false = @ \cup {skill}, !.faults = @ + 1]

\* A buggy variant: the exception leaves execute.
ExecuteExcept_reraise(l, message) ==
    [l EXCEPT !.pc = "propagated", !.boundary_exc = message]

\* A buggy variant: the handler reports a fixed text instead of str(e).
ExecuteExcept_generic(l, message) ==
    [l EXCEPT !.pc = "done", !.result = error_result("Activity failed"),
              !.boundary_exc = message]

\* `except Exception as e: ... return ActivityResult.error_result(str(e))`, the
\* handler that encloses the whole body of every execute.
ExecuteExcept(l, message) ==
    [l EXCEPT !.pc = "done", !.result = error_result(message), !.boundary_exc = message]

\* A skill or memory call raised an exception with this message.
Raise(l, message) == [l EXCEPT !.raised = @ \cup {message}, !.faults = @ + 1]

\* The step leaves execution p within the bound on failures.
WithinFaults(p) == proc'[p].faults <= MaxFaults

\* A call into a skill reported a failure without raising.
Fault(l) == [l EXCEPT !.faults = @ + 1]

\* A skill action returned {"success": False, "error": error}.
ActionFailed(l, action, error) == [Fault(l) EXCEPT !.failed = @ \cup {<<action, error>>}]

\* The outcomes of a call into code outside the sources.
BoolOutcomes == {"true", "false", "raise"}
CallOutcomes == {"ok", "raise"}

(***************************************************************************)
(* PostTweetActivity: activities/activity_post_a_tweet.py                  *)
(***************************************************************************)
category_to_hashtag(category) ==
    CASE category = "emotional_support" -> "#CaregiverSupport"
      [] category = "practical_tips" -> "#CaregivingTips"
      [] category = "resources" -> "#CareResources"
      [] category = "health_advice" -> "#CaregiverHealth"
      [] category = "self_care" -> "#SelfCare"
      [] category = "respite_care" -> "#RespiteCare"
      [] category = "technology" -> "#CaregivingTech"
      [] category = "community" -> "#CaregiverCommunity"
      [] OTHER -> ""

\* The hashtags of the categories that have one, at most two of them.
Hashtags(categories) ==
    LET known == SelectSeq(categories, LAMBDA c : category_to_hashtag(c) # "")
        tags == [i \in 1..Len(known) |-> category_to_hashtag(known[i])]
    IN  SubSeq(tags, 1, IF Len(tags) < 2 THEN Len(tags) ELSE 2)

\* _generate_news_tweet(article): the space-separated parts of the tweet.
generate_news_tweet(article) ==
    (IF article.title # "" /\ article.url # ""
     THEN <<"news:", article.title, article.url>> ELSE <<>>)
    \o (IF Hashtags(article.categories) # <<>> THEN Hashtags(article.categories)
                                               ELSE <<"#CaregiverSupport">>)

\* A buggy variant: the whole list is dropped.
pop_head_all(queue) == <<>>

\* A buggy variant: the posted article is left in the list.
pop_head_none(queue) == queue

\* `shareable_articles.pop(0)`, `queue.pop(0)`: the list afterwards.
pop_head(queue) == Tail(queue)

\* A buggy variant: after the failed post of the article execute goes on to
\* the regular tweet.
PostTweet_NewsFailed_fallthrough(l) ==
    [ActionFailed(l, "post_tweet", "error") EXCEPT !.pc = "post_a_tweet:post_regular"]

\* `else: return ActivityResult.error_result(f"Failed to post tweet: ...")` of
\* the article branch.
PostTweet_NewsFailed(l) ==
    Return(ActionFailed(l, "post_tweet", "error"),
           error_result("Failed to post tweet: error"))

\* `if not await registry.x_api_skill.initialize()`
PostTweet_Initialize(p) ==
    /\ proc[p].pc = "post_a_tweet:initialize"
    /\ UNCHANGED <<package, stored_names, last_lookup, failed_aliases, bound_aliases, register_raised, skill_modules, skill_instances, next_instance, alias_links,
                   skill_state, memory, now, runs>>
    /\ IF ~Registered("x_api_skill")
       THEN proc' = [proc EXCEPT ![p] =
                        ExecuteExcept(@, NotRegisteredError("x_api_skill"))]
       ELSE \E out \in BoolOutcomes :
              LET l == Called(proc[p], <<"initialize", "x_api_skill">>) IN
              proc' = [proc EXCEPT ![p] =
                CASE out = "true" -> [l EXCEPT !.pc = "post_a_tweet:get_queue"]
                  [] out = "false" ->
                        InitFailed(l, "x_api_skill", "X API skill not available")
                  [] OTHER -> ExecuteExcept(Raise(l, "x_api_skill.initialize failed"),
                                            "x_api_skill.initialize failed")]
    /\ WithinFaults(p)

\* `shareable_articles = await self.memory.get("social_share_queue")` and the
\* code up to the next await.
PostTweet_GetQueue(p) ==
    /\ proc[p].pc = "post_a_tweet:get_queue"
    /\ UNCHANGED <<package, stored_names, last_lookup, failed_aliases, bound_aliases, register_raised, skill_modules, skill_instances, next_instance, alias_links,
                   skill_state, memory, now, runs>>
    /\ \E out \in CallOutcomes :
         LET l == Called(proc[p], <<"memory", "get">>)
             q == MemoryGet("social_share_queue") IN
         proc' = [proc EXCEPT ![p] =
           IF out = "raise"
           THEN ExecuteExcept(Raise(l, "memory.get failed"), "memory.get failed")
           ELSE IF q # <<>>
           THEN [l EXCEPT !.pc = "post_a_tweet:post_news", !.queue = q,
                          !.queue_before = q,
                          !.article = q[1], !.text = generate_news_tweet(q[1])]
           ELSE IF l.shared_data.is_none
           THEN ExecuteExcept(l, NoneTypeError)
           ELSE IF l.shared_data.tweet_text = ""
           THEN Return(l, error_result("No tweet content provided"))
           ELSE [l EXCEPT !.pc = "post_a_tweet:post_regular",
                          !.text = <<l.shared_data.tweet_text>>]]
    /\ WithinFaults(p)

\* `post_result = await registry.x_api_skill.post_tweet(tweet_text, media_urls)`
\* for the head of the queue, and the pop that follows a success.
PostTweet_PostNews(p) ==
    /\ proc[p].pc = "post_a_tweet:post_news"
    /\ UNCHANGED <<package, stored_names, last_lookup, failed_aliases, bound_aliases, register_raised, skill_modules, skill_instances, next_instance, alias_links,
                   skill_state, memory, now, runs>>
    /\ IF ~Registered("x_api_skill")
       THEN proc' = [proc EXCEPT ![p] =
                        ExecuteExcept(@, NotRegisteredError("x_api_skill"))]
       ELSE \E out \in BoolOutcomes :
              LET l == Called(proc[p], <<"action", "post_tweet">>) IN
              proc' = [proc EXCEPT ![p] =
                CASE out = "true" ->
                        [l EXCEPT !.posted = Append(@, l.article),
                                  !.queue = pop_head(@),
                                  !.pc = IF pop_head(l.queue) # <<>>
                                         THEN "post_a_tweet:store_queue"
                                         ELSE "post_a_tweet:delete_queue"]
                  [] out = "false" -> PostTweet_NewsFailed(l)
                  [] OTHER -> ExecuteExcept(Raise(l, "x_api_skill.post_tweet failed"),
                                            "x_api_skill.post_tweet failed")]
    /\ WithinFaults(p)

PostTweet_NewsResult(l) ==
    success_result([NoData EXCEPT !.type = "news", !.article = l.article])

\* `await self.memory.store("social_share_queue", shareable_articles, ttl=43200)`
PostTweet_StoreQueue(p) ==
    /\ proc[p].pc = "post_a_tweet:store_queue"
    /\ UNCHANGED <<package, stored_names, last_lookup, failed_aliases, bound_aliases, register_raised, skill_modules, skill_instances, next_instance, alias_links,
                   skill_state, now, runs>>
    /\ \E out \in CallOutcomes :
         LET l == Called(proc[p], <<"memory", "store">>) IN
         IF out = "raise"
         THEN /\ proc' = [proc EXCEPT ![p] =
                    ExecuteExcept(Raise(l, "memory.store failed"), "memory.store failed")]
              /\ UNCHANGED memory
         ELSE /\ memory' = MemoryStore(memory, "social_share_queue", l.queue)
              /\ proc' = [proc EXCEPT ![p] = Return(l, PostTweet_NewsResult(l))]
    /\ WithinFaults(p)

\* `await self.memory.delete("social_share_queue")`
PostTweet_DeleteQueue(p) ==
    /\ proc[p].pc = "post_a_tweet:delete_queue"
    /\ UNCHANGED <<package, stored_names, last_lookup, failed_aliases, bound_aliases, register_raised, skill_modules, skill_instances, next_instance, alias_links,
                   skill_state, now, runs>>
    /\ \E out \in CallOutcomes :
         LET l == Called(proc[p], <<"memory", "delete">>) IN
         IF out = "raise"
         THEN /\ proc' = [proc EXCEPT ![p] =
                    ExecuteExcept(Raise(l, "memory.delete failed"), "memory.delete failed")]
              /\ UNCHANGED memory
         ELSE /\ memory' = MemoryDelete(memory, "social_share_queue")
              /\ proc' = [proc EXCEPT ![p] = Return(l, PostTweet_NewsResult(l))]
    /\ WithinFaults(p)

\* `post_result = await registry.x_api_skill.post_tweet(tweet_text, media_urls)`
\* for shared_data's tweet_text.
PostTweet_PostRegular(p) ==
    /\ proc[p].pc = "post_a_tweet:post_regular"
    /\ UNCHANGED <<package, stored_names, last_lookup, failed_aliases, bound_aliases, register_raised, skill_modules, skill_instances, next_instance, alias_links,
                   skill_state, memory, now, runs>>
    /\ IF ~Registered("x_api_skill")
       THEN proc' = [proc EXCEPT ![p] =
                        ExecuteExcept(@, NotRegisteredError("x_api_skill"))]
       ELSE \E out \in BoolOutcomes :
              LET l == Called(proc[p], <<"action", "post_tweet">>) IN
              proc' = [proc EXCEPT ![p] =
                CASE out = "true" ->
                        Return(l, success_result([NoData EXCEPT !.type = "regular"]))
                  [] out = "false" ->
                        Return(ActionFailed(l, "post_tweet", "error"),
                               error_result("Failed to post tweet: error"))
                  [] OTHER -> ExecuteExcept(Raise(l, "x_api_skill.post_tweet failed"),
                                            "x_api_skill.post_tweet failed")]
    /\ WithinFaults(p)

PostTweet(p) ==
    \/ PostTweet_Initialize(p)
    \/ PostTweet_GetQueue(p)
    \/ PostTweet_PostNews(p)
    \/ PostTweet_StoreQueue(p)
    \/ PostTweet_DeleteQueue(p)
    \/ PostTweet_PostRegular(p)

(***************************************************************************)
(* ImageGenerationSkill: skills/skill_generate_image.py                    *)
(* SerperAPISkill: skills/skill_serper_api.py                              *)
(***************************************************************************)
max_generations_per_day == 50
supported_formats == {"png", "jpg"}

\* ImageGenerationSkill.__init__(config) with the configuration every caller passes.
NewImageSkill == [enabled |-> TRUE, initialized |-> FALSE, api_key |-> FALSE,
                  generations_count |-> 0,
                  max_generations |-> max_generations_per_day]

\* api_manager.get_api_key(...): a key, None, or an exception.
KeyOutcomes == {"key", "none", "raise"}
ApiOutcomes == {"ok", "raise"}

\* ImageGenerationSkill.initialize(): the skill afterwards and the value returned.
ImageInitialize(st, key) ==
    CASE key = "key" -> [st |-> [st EXCEPT !.api_key = TRUE, !.initialized = TRUE],
                         ok |-> TRUE]
      [] key = "none" -> [st |-> [st EXCEPT !.api_key = FALSE], ok |-> FALSE]
      [] OTHER -> [st |-> st, ok |-> FALSE]

\* ImageGenerationSkill.can_generate()
can_generate(st) ==
    /\ st.initialized
    /\ st.enabled
    /\ ~(st.generations_count >= st.max_generations)

\* `self.generations_count += 1` after the response of the API has arrived.
count_generation(st) == [st EXCEPT !.generations_count = @ + 1]

\* generate_image from `await self.can_generate()` to `await
\* loop.run_in_executor(...)`, which has no await in between: the skill at
\* that point and whether the call gets there (proceeds), or the error of the
\* failure it returns before; `os.environ["OPENAI_API_KEY"] = None` raises
\* the TypeError.
generate_image_checks(st, format) ==
    LET failed(error) == [st |-> st, proceeds |-> FALSE, error |-> error]
    IN  IF ~can_generate(st)
        THEN failed("Image generation is not available (disabled, limit reached, or not configured)")
        ELSE IF format \notin supported_formats
        THEN failed("Unsupported format. Use: ['png', 'jpg']")
        ELSE IF ~st.api_key THEN failed("str expected, not NoneType")
        ELSE [st |-> st, proceeds |-> TRUE, error |-> ""]

\* generate_image resumed in `await self.initialize()`, which the call entered
\* because it read _initialized False: key is what get_api_key gives, st the
\* skill as it is by then.
generate_image_key(st, format, key) ==
    IF ~ImageInitialize(st, key).ok
    THEN [st |-> ImageInitialize(st, key).st, proceeds |-> FALSE,
          error |-> "Image generation skill not initialized"]
    ELSE generate_image_checks(ImageInitialize(st, key).st, format)

\* generate_image up to `await loop.run_in_executor(...)` when no other call
\* runs in between.
generate_image_call(st, format, key) ==
    IF st.initialized THEN generate_image_checks(st, format)
    ELSE generate_image_key(st, format, key)

\* generate_image after the executor await: api is the outcome of
\* client.images.generate; st is the skill as it is by then.
generate_image_response(st, api) ==
    IF api = "raise"
    THEN [st |-> st, success |-> FALSE, url |-> "", error |-> "images.generate failed"]
    ELSE [st |-> count_generation(st), success |-> TRUE, url |-> "generated",
          error |-> ""]

\* The part of generate_image one step of the caller l runs, from the await
\* l is suspended in (none: the call starts) to the next one or to the
\* return.  returned is whether the call has returned after the step,
\* awaiting the await it is suspended in otherwise.
ImageStep(l, st, format, key, api) ==
    LET early(c) == [st |-> c.st, returned |-> ~c.proceeds,
                     awaiting |-> "images.generate", success |-> FALSE,
                     url |-> "", error |-> c.error]
    IN  CASE l.awaiting = "" /\ st.initialized
                -> early(generate_image_checks(st, format))
          [] l.awaiting = "" /\ ~st.initialized
                -> [st |-> st, returned |-> FALSE, awaiting |-> "get_api_key",
                    success |-> FALSE, url |-> "", error |-> ""]
          [] l.awaiting = "get_api_key"
                -> early(generate_image_key(st, format, key))
          [] OTHER
                -> LET r == generate_image_response(st, api) IN
                   [st |-> r.st, returned |-> TRUE, awaiting |-> "",
                    success |-> r.success, url |-> r.url, error |-> r.error]

\* The caller is suspended in generate_image / has the call's result.
Suspend(l, r) == [Called(l, <<"action", "generate_image">>) EXCEPT
                     !.awaiting = r.awaiting]
Resumed(l, r) ==
    [Called(IF r.success THEN l ELSE ActionFailed(l, "generate_image", r.error),
            <<"action", "generate_image">>) EXCEPT !.awaiting = ""]

\* A buggy variant: the counter moves before the API call is known to succeed.
generate_image_countfirst(st, format, key, api) ==
    [st |-> [st EXCEPT !.generations_count = @ + 1], success |-> api = "ok",
     url |-> IF api = "ok" THEN "generated" ELSE "",
     error |-> IF api = "ok" THEN "" ELSE "images.generate failed"]

\* ImageGenerationSkill.generate_image(prompt, size, format, ...): the skill
\* afterwards and the mapping returned.  key is what get_api_key gives if
\* initialize() is called, api is the outcome of client.images.generate.
generate_image(st, format, key, api) ==
    LET c == generate_image_call(st, format, key)
    IN  IF c.proceeds THEN generate_image_response(c.st, api)
        ELSE [st |-> c.st, success |-> FALSE, url |-> "", error |-> c.error]

\* ImageGenerationSkill.reset_counts()
reset_counts(st) == [st EXCEPT !.generations_count = 0]

\* SerperAPISkill.initialize(): _initialized afterwards and the value returned.
SerperInitialize(initialized, key) ==
    IF key = "key" THEN [initialized |-> TRUE, ok |-> TRUE]
                   ELSE [initialized |-> initialized, ok |-> FALSE]

\* What the news endpoint may answer: an error, or up to `room` articles.
SearchAnswers(room) ==
    {<<>>} \cup (IF room >= 1 THEN {<<SearchArticle(i)>> : i \in ArticleIds} ELSE {})
           \cup (IF room >= 2 THEN {<<SearchArticle(i), SearchArticle(j)>> :
                                        i \in ArticleIds, j \in ArticleIds}
                              ELSE {})

\* What the news endpoint answers the searches of one fetch_news execution
\* that has received `fetched` articles: nothing, or the next articles.
NewsAnswers(fetched) ==
    {<<>>} \cup {[k \in 1..n |-> SearchArticle(fetched + k)] :
                    n \in 1..(MaxFetched - fetched)}

\* SerperAPISkill.search_news(query, num_results): _initialized afterwards and
\* the mapping returned; http is "error" (a non-200 status or an exception of
\* the HTTP client) or "ok" with the articles of answer.
search_news(initialized, key, http, answer) ==
    LET ready == initialized \/ SerperInitialize(initialized, key).ok
        st1 == IF initialized THEN initialized
               ELSE SerperInitialize(initialized, key).initialized
    IN  IF ~ready THEN [initialized |-> st1, success |-> FALSE, articles |-> <<>>,
                        error |-> "Serper API skill not initialized"]
        ELSE IF http = "error"
        THEN [initialized |-> st1, success |-> FALSE, articles |-> <<>>,
              error |-> "API error"]
        ELSE [initialized |-> st1, success |-> TRUE, articles |-> answer, error |-> ""]

ImageState(inst) == skill_state.image[inst]
SetImage(inst, st) == [skill_state EXCEPT !.image[inst] = st]

(***************************************************************************)
(* Steps shared by the personalized_* activities                           *)
(***************************************************************************)
\* `if not await <chat skill>.initialize(): return error_result(message)`:
\* the records execute may continue with.  The chat skill is not part of the
\* sources: initialize() returns True or False or raises.
ChatInitialize(l, name, via_registry, message, next) ==
    IF via_registry /\ ~Registered(name)
    THEN {ExecuteExcept(l, NotRegisteredError(name))}
    ELSE LET c == Called(l, <<"initialize", name>>) IN
         { [c EXCEPT !.pc = next],
           InitFailed(c, name, message),
           ExecuteExcept(Raise(c, "initialize failed"), "initialize failed") }

\* `response = await <chat skill>.get_chat_completion(prompt=...)`
ChatCompletion(l, name, via_registry, next) ==
    IF via_registry /\ ~Registered(name)
    THEN {ExecuteExcept(l, NotRegisteredError(name))}
    ELSE LET c == Called(l, <<"action", "get_chat_completion">>) IN
         { [c EXCEPT !.pc = next],
           ExecuteExcept(Raise(c, "get_chat_completion failed"),
                         "get_chat_completion failed") }

\* proc with the record of p replaced by one of the records of S.
Continue(p, S) == \E l \in S : proc' = [proc EXCEPT ![p] = l]

Frame_Registry ==
    UNCHANGED <<package, stored_names, last_lookup, failed_aliases, bound_aliases, register_raised, skill_modules,
                skill_instances, next_instance, alias_links>>

\* `if not await <image skill>.initialize(): return error_result(message)`
ImageInitStep(p, inst, message, next) ==
    \E key \in KeyOutcomes :
      LET r == ImageInitialize(ImageState(inst), key)
          c == Called(proc[p], <<"initialize", "image_generation_skill">>) IN
      /\ skill_state' = SetImage(inst, r.st)
      /\ proc' = [proc EXCEPT ![p] =
            IF r.ok THEN [c EXCEPT !.pc = next]
                    ELSE InitFailed(c, "image_generation_skill", message)]

\* `response = await <image skill>.generate_image(prompt=...)`, its result unused.
ImageGenerateStep(p, inst, next) ==
    \E key \in KeyOutcomes, api \in ApiOutcomes :
      LET r == ImageStep(proc[p], ImageState(inst), "png", key, api)
          c == Resumed(proc[p], r) IN
      /\ skill_state' = SetImage(inst, r.st)
      /\ proc' = [proc EXCEPT ![p] = IF ~r.returned THEN Suspend(@, r)
                                     ELSE [c EXCEPT !.pc = next]]

(***************************************************************************)
(* PersonalizedCaregiverCheckin:                                           *)
(*   activities/activity_personalized_caregiver_checkin.py                 *)
(***************************************************************************)
Checkin_ChatInitialize(p) ==
    /\ proc[p].pc = "checkin:chat_initialize"
    /\ Frame_Registry /\ UNCHANGED <<skill_state, memory, now, runs>>
    /\ Continue(p, {IF l.pc = "checkin:chat_completion" /\ l.shared_data.is_none
                    THEN ExecuteExcept(l, NoneTypeError) ELSE l :
                    l \in ChatInitialize(proc[p], "chat_skill", TRUE,
                            "Chat skill not available", "checkin:chat_completion")})
    /\ WithinFaults(p)

Checkin_ChatCompletion(p) ==
    /\ proc[p].pc = "checkin:chat_completion"
    /\ Frame_Registry /\ UNCHANGED <<skill_state, memory, now, runs>>
    /\ Continue(p, ChatCompletion(proc[p], "chat_skill", TRUE, "checkin:image_initialize"))
    /\ WithinFaults(p)

Checkin_ImageInitialize(p) ==
    /\ proc[p].pc = "checkin:image_initialize"
    /\ Frame_Registry /\ UNCHANGED <<memory, now, runs>>
    /\ IF ~Registered("image_generation_skill")
       THEN /\ proc' = [proc EXCEPT ![p] =
                  ExecuteExcept(@, NotRegisteredError("image_generation_skill"))]
            /\ UNCHANGED skill_state
       ELSE ImageInitStep(p, Lookup("image_generation_skill"),
                          "Image generation skill not available",
                          "checkin:generate_image")
    /\ WithinFaults(p)

Checkin_GenerateImage(p) ==
    /\ proc[p].pc = "checkin:generate_image"
    /\ Frame_Registry /\ UNCHANGED <<memory, now, runs>>
    /\ IF ~Registered("image_generation_skill")
       THEN /\ proc' = [proc EXCEPT ![p] =
                  ExecuteExcept(@, NotRegisteredError("image_generation_skill"))]
            /\ UNCHANGED skill_state
       ELSE ImageGenerateStep(p, Lookup("image_generation_skill"),
                              "checkin:lite_initialize")
    /\ WithinFaults(p)

Checkin_LiteInitialize(p) ==
    /\ proc[p].pc = "checkin:lite_initialize"
    /\ Frame_Registry /\ UNCHANGED <<skill_state, memory, now, runs>>
    /\ Continue(p, ChatInitialize(proc[p], "lite_llm_skill", TRUE,
                        "Lite LLM skill not available", "checkin:lite_completion"))
    /\ WithinFaults(p)

Checkin_LiteCompletion(p) ==
    /\ proc[p].pc = "checkin:lite_completion"
    /\ Frame_Registry /\ UNCHANGED <<skill_state, memory, now, runs>>
    /\ Continue(p, {IF l.pc = "checkin:return"
                    THEN Return(l, success_result([NoData EXCEPT !.type = "checkin"]))
                    ELSE l :
                    l \in ChatCompletion(proc[p], "lite_llm_skill", TRUE, "checkin:return")})
    /\ WithinFaults(p)

Checkin(p) ==
    \/ Checkin_ChatInitialize(p)
    \/ Checkin_ChatCompletion(p)
    \/ Checkin_ImageInitialize(p)
    \/ Checkin_GenerateImage(p)
    \/ Checkin_LiteInitialize(p)
    \/ Checkin_LiteCompletion(p)

(***************************************************************************)
(* PersonalizedEmotionalSupportActivity:                                   *)
(*   activities/activity_personalized_emotional_support.py                 *)
(* The skills are the module-level instances, imported directly.           *)
(***************************************************************************)
Support_ChatInitialize(p) ==
    /\ proc[p].pc = "emotional_support:chat_initialize"
    /\ Frame_Registry /\ UNCHANGED <<skill_state, memory, now, runs>>
    /\ Continue(p, ChatInitialize(proc[p], "chat_skill", FALSE,
                     "Chat skill not available", "emotional_support:chat_completion"))
    /\ WithinFaults(p)

Support_ChatCompletion(p) ==
    /\ proc[p].pc = "emotional_support:chat_completion"
    /\ Frame_Registry /\ UNCHANGED <<skill_state, memory, now, runs>>
    /\ Continue(p, ChatCompletion(proc[p], "chat_skill", FALSE,
                                  "emotional_support:image_initialize"))
    /\ WithinFaults(p)

Support_ImageInitialize(p) ==
    /\ proc[p].pc = "emotional_support:image_initialize"
    /\ Frame_Registry /\ UNCHANGED <<memory, now, runs>>
    /\ ImageInitStep(p, AdapterImage, "Image generation skill not available",
                     "emotional_support:generate_image")
    /\ WithinFaults(p)

Support_GenerateImage(p) ==
    /\ proc[p].pc = "emotional_support:generate_image"
    /\ Frame_Registry /\ UNCHANGED <<memory, now, runs>>
    /\ ImageGenerateStep(p, AdapterImage, "emotional_support:lite_initialize")
    /\ WithinFaults(p)

Support_LiteInitialize(p) ==
    /\ proc[p].pc = "emotional_support:lite_initialize"
    /\ Frame_Registry /\ UNCHANGED <<skill_state, memory, now, runs>>
    /\ Continue(p, ChatInitialize(proc[p], "lite_llm_skill", FALSE,
                     "Lite LLM skill not available", "emotional_support:lite_completion"))
    /\ WithinFaults(p)

Support_LiteCompletion(p) ==
    /\ proc[p].pc = "emotional_support:lite_completion"
    /\ Frame_Registry /\ UNCHANGED <<skill_state, memory, now, runs>>
    /\ Continue(p, {IF l.pc = "emotional_support:return"
                    THEN Return(l, success_result([NoData EXCEPT !.type = "support"]))
                    ELSE l :
                    l \in ChatCompletion(proc[p], "lite_llm_skill", FALSE,
                                         "emotional_support:return")})
    /\ WithinFaults(p)

Support(p) ==
    \/ Support_ChatInitialize(p)
    \/ Support_ChatCompletion(p)
    \/ Support_ImageInitialize(p)
    \/ Support_GenerateImage(p)
    \/ Support_LiteInitialize(p)
    \/ Support_LiteCompletion(p)

(***************************************************************************)
(* PersonalizedEmotionalCheckinsActivity:                                  *)
(*   activities/activity_personalized_emotional_checkins.py                *)
(***************************************************************************)
\* chat_skill.initialize(), then DigitalBeing().initialize() and
\* being.memory.get_recent_activities(limit=10), which are synchronous.
Checkins_ChatInitialize(p) ==
    /\ proc[p].pc = "emotional_checkins:chat_initialize"
    /\ Frame_Registry /\ UNCHANGED <<skill_state, memory, now, runs>>
    /\ \E activities \in CallOutcomes :
         Continue(p, {IF l.pc # "emotional_checkins:chat_completion" THEN l
                      ELSE IF activities = "raise"
                      THEN ExecuteExcept(
                             Raise(Called(l, <<"memory", "get_recent_activities">>),
                                   "get_recent_activities failed"),
                             "get_recent_activities failed")
                      ELSE Called(l, <<"memory", "get_recent_activities">>) :
                      l \in ChatInitialize(proc[p], "chat_skill", FALSE,
                              "Chat skill not available",
                              "emotional_checkins:chat_completion")})
    /\ WithinFaults(p)

Checkins_ChatCompletion(p) ==
    /\ proc[p].pc = "emotional_checkins:chat_completion"
    /\ Frame_Registry /\ UNCHANGED <<skill_state, memory, now, runs>>
    /\ Continue(p, {IF l.pc = "emotional_checkins:return"
                    THEN Return(l, success_result([NoData EXCEPT !.type = "message"]))
                    ELSE l :
                    l \in ChatCompletion(proc[p], "chat_skill", FALSE,
                                         "emotional_checkins:return")})
    /\ WithinFaults(p)

Checkins(p) ==
    \/ Checkins_ChatInitialize(p)
    \/ Checkins_ChatCompletion(p)

(***************************************************************************)
(* DrawActivity: activities/activity_draw.py                               *)
(***************************************************************************)
\* The record, in the ghost field writes, of an assignment the activity makes
\* to a field of a skill.
DirectWrite(l, skill, field) == [l EXCEPT !.writes = @ \cup {<<skill, field>>}]

\* A buggy variant: the assignment switches the skill off.
Draw_SetEnabled_disable(st) == [st EXCEPT !.enabled = FALSE]

\* `image_generation_skill.enabled = True`
Draw_SetEnabled(st) == [st EXCEPT !.enabled = TRUE]

\* initialize(), `image_generation_skill.enabled = True`, can_generate() and
\* _generate_prompt(shared_data).
Draw_Initialize(p) ==
    /\ proc[p].pc = "draw:initialize"
    /\ Frame_Registry /\ UNCHANGED <<memory, now, runs>>
    /\ \E key \in KeyOutcomes :
         LET r == ImageInitialize(ImageState(AdapterImage), key)
             enabled == Draw_SetEnabled(r.st)
             c == Called(proc[p], <<"initialize", "image_generation_skill">>)
             w == DirectWrite(c, "image_generation_skill", "enabled") IN
         IF ~r.ok
         THEN /\ skill_state' = SetImage(AdapterImage, r.st)
              /\ proc' = [proc EXCEPT ![p] =
                    InitFailed(c, "image_generation_skill",
                               "Failed to initialize image generation skill")]
         ELSE /\ skill_state' = SetImage(AdapterImage, enabled)
              /\ proc' = [proc EXCEPT ![p] =
                    IF ~can_generate(enabled)
                    THEN Return(w, ActivityResult(FALSE, NoPayload,
                                    "Image generation is not available at this time"))
                    ELSE [w EXCEPT !.pc = "draw:generate_image"]]
    /\ WithinFaults(p)

\* str(e) of the exception a call of DrawActivity.execute raises into its
\* except clause: the message, or the empty string of an exception made
\* without one, as KeyError() or asyncio.TimeoutError().
ExceptionTexts == {"shared_data.set failed", ""}

\* generate_image(prompt, size, format) and, on success, shared_data.set(
\* "memory", "drawing_<generation_id>", ...), which stores into the memory
\* namespace of shared_data.  The results are built by the constructor:
\* `ActivityResult(success=True, data={...}, metadata={...})`,
\* `ActivityResult(success=False, error=error_msg)` and, in the except clause,
\* `ActivityResult(success=False, error=str(e))`.
Draw_GenerateImage(p) ==
    /\ proc[p].pc = "draw:generate_image"
    /\ Frame_Registry /\ UNCHANGED <<now, runs>>
    /\ \E key \in KeyOutcomes, api \in ApiOutcomes, set \in CallOutcomes,
          text \in ExceptionTexts :
         LET r == ImageStep(proc[p], ImageState(AdapterImage), "png", key, api)
             c == Resumed(proc[p], r)
             w == Called(c, <<"memory", "set">>)
             done == ActivityResult(TRUE, [NoData EXCEPT !.type = "drawing"], NoError) IN
         /\ skill_state' = SetImage(AdapterImage, r.st)
         /\ IF ~r.returned
            THEN /\ proc' = [proc EXCEPT ![p] = Suspend(@, r)]
                 /\ UNCHANGED memory
            ELSE IF ~r.success
            THEN /\ proc' = [proc EXCEPT ![p] =
                       Return(c, ActivityResult(FALSE, NoPayload, r.error))]
                 /\ UNCHANGED memory
            ELSE IF ~Truthy(c.shared_data)
            THEN /\ proc' = [proc EXCEPT ![p] = Return(c, done)]
                 /\ UNCHANGED memory
            ELSE IF set = "raise"
            THEN /\ proc' = [proc EXCEPT ![p] =
                       ExecuteExcept(Raise(w, text), text)]
                 /\ UNCHANGED memory
            ELSE /\ proc' = [proc EXCEPT ![p] = Return(w, done)]
                 /\ memory' = MemoryStore(memory, "drawing", <<>>)
    /\ WithinFaults(p)

Draw(p) ==
    \/ Draw_Initialize(p)
    \/ Draw_GenerateImage(p)

(***************************************************************************)
(* FetchNewsActivity: activities/activity_fetch_news.py                    *)
(***************************************************************************)
\* Scores are kept in tenths: 7 is 0.7.
ScoreAnswers == {"not a number", "0.7", "0.9"}
CategoryAnswers == {<<"resources">>, <<"community">>}

\* float(response.strip()) in tenths, clamped by min(max(score, 0.0), 1.0);
\* a ValueError gives 0.0.
RelevanceOf(response) ==
    LET score == CASE response = "0.7" -> 7
                   [] response = "0.9" -> 9
                   [] response = "1.2" -> 12
                   [] OTHER -> 0
        low == IF score > 0 THEN score ELSE 0
    IN  IF low < 10 THEN low ELSE 10

\* The number of topics execute searches for.
TopicCount(shared_data) ==
    CASE shared_data.trigger_type = "conversation" /\ shared_data.topic # "" -> 6
      [] shared_data.trigger_type = "content_creation" -> 2
      [] OTHER -> 5

RECURSIVE InsertByScore(_, _)
\* sorted with article a inserted after the articles whose score is not lower.
InsertByScore(sorted, a) ==
    IF sorted = <<>> THEN <<a>>
    ELSE IF Head(sorted).relevance_score >= a.relevance_score
    THEN <<Head(sorted)>> \o InsertByScore(Tail(sorted), a)
    ELSE <<a>> \o sorted

RECURSIVE SortByScore(_)
\* articles.sort(key=lambda x: x['relevance_score'], reverse=True): stable.
SortByScore(articles) ==
    IF articles = <<>> THEN <<>>
    ELSE InsertByScore(SortByScore(SubSeq(articles, 1, Len(articles) - 1)),
                       articles[Len(articles)])

\* `if article['relevance_score'] >= 0.7`, then the sort.
RelevantArticles(all_articles) ==
    SortByScore(SelectSeq(all_articles, LAMBDA a : a.relevance_score >= 7))

FirstN(seq, n) == SubSeq(seq, 1, IF Len(seq) < n THEN Len(seq) ELSE n)

\* A buggy variant: every relevant article is shared, whatever its score.
ShareableArticles_all(articles) == FirstN(articles, 3)

\* _prepare_social_content: the articles to queue.
ShareableArticles(articles) ==
    FirstN(SelectSeq(articles, LAMBDA a :
              /\ a.relevance_score >= 8
              /\ \E i \in DOMAIN a.categories :
                    a.categories[i] \in {"practical_tips", "resources", "self_care"}), 3)

\* _prepare_conversation_response: the articles a conversation gets.
ConversationArticles(articles, topic) ==
    FirstN(SelectSeq(articles, LAMBDA a :
              \E i \in DOMAIN a.categories : topic = "" \/ a.categories[i] = topic), 2)

NewsKey(category) ==
    CASE category = "resources" -> "news_resources"
      [] category = "community" -> "news_community"
      [] OTHER -> "news_other"

RECURSIVE CategoryKeys(_)
\* The keys _store_articles_in_memory stores, in order.
CategoryKeys(articles) ==
    IF articles = <<>> THEN <<>>
    ELSE [i \in DOMAIN Head(articles).categories |-> NewsKey(Head(articles).categories[i])]
         \o CategoryKeys(Tail(articles))

\* The end of execute: the result returned.
FetchNews_Return(l) ==
    Return(l, success_result([NoData EXCEPT
        !.type = IF l.shared_data.trigger_type = "" THEN "schedule"
                 ELSE l.shared_data.trigger_type,
        !.actions_taken =
            CASE l.shared_data.trigger_type = "conversation"
                    -> <<"prepared_conversation_response">>
              [] l.shared_data.trigger_type = "content_creation"
                    -> <<"prepared_social_content">>
              [] OTHER -> <<>>]))

\* After _store_articles_in_memory: the trigger's action, up to its await.
FetchNews_AfterStore(l) ==
    CASE l.shared_data.trigger_type = "conversation" ->
            IF ConversationArticles(l.articles, l.shared_data.topic) # <<>>
            THEN [l EXCEPT !.pc = "fetch_news:store_conversation"]
            ELSE FetchNews_Return(l)
      [] l.shared_data.trigger_type = "content_creation" ->
            IF ShareableArticles(l.articles) # <<>>
            THEN [l EXCEPT !.pc = "fetch_news:store_queue"]
            ELSE FetchNews_Return(l)
      [] OTHER -> FetchNews_Return(l)

\* The end of the topic loop: filter, sort, and the first store.
FetchNews_AfterLoop(l) ==
    LET relevant == RelevantArticles(l.articles) IN
    [l EXCEPT !.pc = "fetch_news:store_articles", !.articles = relevant,
              !.stores = CategoryKeys(relevant) \o <<"recent_news">>]

\* The end of one article's processing: the next article, topic, or the end.
FetchNews_NextArticle(l) ==
    LET done == [l EXCEPT !.articles = Append(@, l.article), !.article = NoArticle,
                          !.pending = Tail(@)] IN
    IF done.pending # <<>>
    THEN [done EXCEPT !.pc = "fetch_news:relevance_initialize",
                      !.article = Head(done.pending)]
    ELSE IF done.topics > 1
    THEN [done EXCEPT !.pc = "fetch_news:search", !.topics = @ - 1]
    ELSE FetchNews_AfterLoop([done EXCEPT !.topics = 0])

\* shared_data.get(...) and `if not await registry.serper_api_skill.initialize()`
FetchNews_SerperInitialize(p) ==
    /\ proc[p].pc = "fetch_news:serper_initialize"
    /\ Frame_Registry /\ UNCHANGED <<memory, now, runs>>
    /\ IF proc[p].shared_data.is_none
       THEN /\ proc' = [proc EXCEPT ![p] = ExecuteExcept(@, NoneTypeError)]
            /\ UNCHANGED skill_state
       ELSE IF ~Registered("serper_api_skill")
       THEN /\ proc' = [proc EXCEPT ![p] =
                  ExecuteExcept(@, NotRegisteredError("serper_api_skill"))]
            /\ UNCHANGED skill_state
       ELSE \E key \in KeyOutcomes :
              LET r == SerperInitialize(skill_state.serper_initialized, key)
                  c == Called(proc[p], <<"initialize", "serper_api_skill">>) IN
              /\ skill_state' = [skill_state EXCEPT !.serper_initialized = r.initialized]
              /\ proc' = [proc EXCEPT ![p] =
                    IF r.ok
                    THEN [c EXCEPT !.pc = "fetch_news:search",
                                   !.topics = TopicCount(c.shared_data)]
                    ELSE InitFailed(c, "serper_api_skill",
                                    "Failed to initialize Serper API skill")]
    /\ WithinFaults(p)

\* `result = await registry.serper_api_skill.search_news(query=topic, num_results=3)`
FetchNews_Search(p) ==
    /\ proc[p].pc = "fetch_news:search"
    /\ Frame_Registry /\ UNCHANGED <<memory, now, runs>>
    /\ IF ~Registered("serper_api_skill")
       THEN /\ proc' = [proc EXCEPT ![p] =
                  ExecuteExcept(@, NotRegisteredError("serper_api_skill"))]
            /\ UNCHANGED skill_state
       ELSE \E key \in KeyOutcomes, http \in {"ok", "error"},
               answer \in NewsAnswers(proc[p].fetched) :
              LET r == search_news(skill_state.serper_initialized, key, http, answer)
                  c == Called(IF r.success THEN proc[p]
                              ELSE ActionFailed(proc[p], "search_news", r.error),
                              <<"action", "search_news">>) IN
              /\ skill_state' = [skill_state EXCEPT !.serper_initialized = r.initialized]
              /\ proc' = [proc EXCEPT ![p] =
                    IF r.success /\ r.articles # <<>>
                    THEN [c EXCEPT !.pc = "fetch_news:relevance_initialize",
                                   !.pending = r.articles,
                                   !.article = Head(r.articles),
                                   !.fetched = @ + Len(r.articles)]
                    ELSE IF c.topics > 1
                    THEN [c EXCEPT !.topics = @ - 1]
                    ELSE FetchNews_AfterLoop([c EXCEPT !.topics = 0])]
    /\ WithinFaults(p)

\* _analyze_article_relevance: `if not await registry.chat_skill.initialize(): return 0.0`
FetchNews_RelevanceInitialize(p) ==
    /\ proc[p].pc = "fetch_news:relevance_initialize"
    /\ Frame_Registry /\ UNCHANGED <<skill_state, memory, now, runs>>
    /\ LET zero == [proc[p] EXCEPT !.pc = "fetch_news:categorize_initialize",
                                   !.article.relevance_score = 0] IN
       IF ~Registered("chat_skill")
       THEN proc' = [proc EXCEPT ![p] =
                [zero EXCEPT !.swallowed = @ \cup {<<"_analyze_article_relevance", NotRegisteredError("chat_skill")>>}]]
       ELSE \E out \in BoolOutcomes :
              proc' = [proc EXCEPT ![p] =
                CASE out = "true" ->
                        Called([@ EXCEPT !.pc = "fetch_news:relevance_completion"],
                               <<"initialize", "chat_skill">>)
                  [] out = "false" ->
                        Called([Fault(zero) EXCEPT !.init_false = @ \cup {"chat_skill"}],
                               <<"initialize", "chat_skill">>)
                  [] OTHER ->
                        Called(Raise([zero EXCEPT !.swallowed =
                                          @ \cup {<<"_analyze_article_relevance", "initialize failed">>}],
                                     "initialize failed"),
                               <<"initialize", "chat_skill">>)]
    /\ WithinFaults(p)

\* _analyze_article_relevance: get_chat_completion and the score.
FetchNews_RelevanceCompletion(p) ==
    /\ proc[p].pc = "fetch_news:relevance_completion"
    /\ Frame_Registry /\ UNCHANGED <<skill_state, memory, now, runs>>
    /\ LET c == Called([proc[p] EXCEPT !.pc = "fetch_news:categorize_initialize"],
                       <<"action", "get_chat_completion">>) IN
       IF ~Registered("chat_skill")
       THEN proc' = [proc EXCEPT ![p] =
                [@ EXCEPT !.pc = "fetch_news:categorize_initialize",
                          !.article.relevance_score = 0,
                          !.swallowed = @ \cup {<<"_analyze_article_relevance", NotRegisteredError("chat_skill")>>}]]
       ELSE \/ \E response \in ScoreAnswers :
                 proc' = [proc EXCEPT ![p] =
                    [c EXCEPT !.article.relevance_score = RelevanceOf(response)]]
            \/ proc' = [proc EXCEPT ![p] =
                    Raise([c EXCEPT !.article.relevance_score = 0,
                                    !.swallowed = @ \cup {<<"_analyze_article_relevance", "get_chat_completion failed">>}],
                          "get_chat_completion failed")]
    /\ WithinFaults(p)

\* _categorize_article: `if not await registry.chat_skill.initialize(): return []`
FetchNews_CategorizeInitialize(p) ==
    /\ proc[p].pc = "fetch_news:categorize_initialize"
    /\ Frame_Registry /\ UNCHANGED <<skill_state, memory, now, runs>>
    /\ LET none == [proc[p] EXCEPT !.article.categories = <<>>] IN
       IF ~Registered("chat_skill")
       THEN proc' = [proc EXCEPT ![p] = FetchNews_NextArticle(
                [none EXCEPT !.swallowed = @ \cup {<<"_categorize_article", NotRegisteredError("chat_skill")>>}])]
       ELSE \E out \in BoolOutcomes :
              proc' = [proc EXCEPT ![p] =
                CASE out = "true" ->
                        Called([@ EXCEPT !.pc = "fetch_news:categorize_completion"],
                               <<"initialize", "chat_skill">>)
                  [] out = "false" ->
                        FetchNews_NextArticle(
                            Called([Fault(none) EXCEPT !.init_false = @ \cup {"chat_skill"}],
                                   <<"initialize", "chat_skill">>))
                  [] OTHER ->
                        FetchNews_NextArticle(
                            Called(Raise([none EXCEPT !.swallowed =
                                              @ \cup {<<"_categorize_article", "initialize failed">>}],
                                         "initialize failed"),
                                   <<"initialize", "chat_skill">>))]
    /\ WithinFaults(p)

\* _categorize_article: get_chat_completion and the split into categories.
FetchNews_CategorizeCompletion(p) ==
    /\ proc[p].pc = "fetch_news:categorize_completion"
    /\ Frame_Registry /\ UNCHANGED <<skill_state, memory, now, runs>>
    /\ LET c == Called(proc[p], <<"action", "get_chat_completion">>) IN
       IF ~Registered("chat_skill")
       THEN proc' = [proc EXCEPT ![p] = FetchNews_NextArticle(
                [@ EXCEPT !.article.categories = <<>>,
                          !.swallowed = @ \cup {<<"_categorize_article", NotRegisteredError("chat_skill")>>}])]
       ELSE \/ \E response \in CategoryAnswers :
                 proc' = [proc EXCEPT ![p] = FetchNews_NextArticle(
                    [c EXCEPT !.article.categories = response])]
            \/ proc' = [proc EXCEPT ![p] = FetchNews_NextArticle(
                    Raise([c EXCEPT !.article.categories = <<>>,
                                    !.swallowed = @ \cup {<<"_categorize_article", "get_chat_completion failed">>}],
                          "get_chat_completion failed"))]
    /\ WithinFaults(p)

\* _store_articles_in_memory: one `await self.memory.store(...)`; an exception
\* ends the helper, which logs it.
FetchNews_StoreArticles(p) ==
    /\ proc[p].pc = "fetch_news:store_articles"
    /\ Frame_Registry /\ UNCHANGED <<skill_state, now, runs>>
    /\ LET c == Called(proc[p], <<"memory", "store">>) IN
       \/ /\ memory' = MemoryStore(memory, Head(c.stores), <<>>)
          /\ proc' = [proc EXCEPT ![p] =
                IF Tail(c.stores) # <<>> THEN [c EXCEPT !.stores = Tail(@)]
                ELSE FetchNews_AfterStore([c EXCEPT !.stores = <<>>])]
       \/ /\ UNCHANGED memory
          /\ proc' = [proc EXCEPT ![p] = FetchNews_AfterStore(
                Raise([c EXCEPT !.stores = <<>>,
                                !.swallowed = @ \cup {<<"_store_articles_in_memory", "memory.store failed">>}],
                      "memory.store failed"))]
    /\ WithinFaults(p)

\* _prepare_conversation_response: the store of conversation_articles_<id>.
FetchNews_StoreConversation(p) ==
    /\ proc[p].pc = "fetch_news:store_conversation"
    /\ Frame_Registry /\ UNCHANGED <<skill_state, now, runs>>
    /\ LET c == Called(proc[p], <<"memory", "store">>) IN
       \/ /\ memory' = MemoryStore(memory, "conversation_articles", <<>>)
          /\ proc' = [proc EXCEPT ![p] = FetchNews_Return(c)]
       \/ /\ UNCHANGED memory
          /\ proc' = [proc EXCEPT ![p] = FetchNews_Return(
                Raise([c EXCEPT !.swallowed = @ \cup {<<"_prepare_conversation_response", "memory.store failed">>}],
                      "memory.store failed"))]
    /\ WithinFaults(p)

\* _prepare_social_content: the store of social_share_queue.
FetchNews_StoreQueue(p) ==
    /\ proc[p].pc = "fetch_news:store_queue"
    /\ Frame_Registry /\ UNCHANGED <<skill_state, now, runs>>
    /\ LET c == Called(proc[p], <<"memory", "store">>) IN
       \/ /\ memory' = MemoryStore(memory, "social_share_queue",
                                   ShareableArticles(c.articles))
          /\ proc' = [proc EXCEPT ![p] = FetchNews_Return(c)]
       \/ /\ UNCHANGED memory
          /\ proc' = [proc EXCEPT ![p] = FetchNews_Return(
                Raise([c EXCEPT !.swallowed = @ \cup {<<"_prepare_social_content", "memory.store failed">>}],
                      "memory.store failed"))]
    /\ WithinFaults(p)

FetchNews(p) ==
    \/ FetchNews_SerperInitialize(p)
    \/ FetchNews_Search(p)
    \/ FetchNews_RelevanceInitialize(p)
    \/ FetchNews_RelevanceCompletion(p)
    \/ FetchNews_CategorizeInitialize(p)
    \/ FetchNews_CategorizeCompletion(p)
    \/ FetchNews_StoreArticles(p)
    \/ FetchNews_StoreConversation(p)
    \/ FetchNews_StoreQueue(p)

(***************************************************************************)
(* PromoteGiveCareContentActivity:                                         *)
(*   activities/activity_promote_givecare_content.py                       *)
(***************************************************************************)
min_repost_interval == 604800
max_promotions == 5

categories == <<"Product", "Advocacy", "Resources", "PersonalWellness", "Community">>

\* str.lower(), on the letters A to Z.
RECURSIVE lower(_)
lower(s) ==
    LET LowerChar(c) ==
            CASE c = "A" -> "a" [] c = "B" -> "b" [] c = "C" -> "c" [] c = "D" -> "d"
              [] c = "E" -> "e" [] c = "F" -> "f" [] c = "G" -> "g" [] c = "H" -> "h"
              [] c = "I" -> "i" [] c = "J" -> "j" [] c = "K" -> "k" [] c = "L" -> "l"
              [] c = "M" -> "m" [] c = "N" -> "n" [] c = "O" -> "o" [] c = "P" -> "p"
              [] c = "Q" -> "q" [] c = "R" -> "r" [] c = "S" -> "s" [] c = "T" -> "t"
              [] c = "U" -> "u" [] c = "V" -> "v" [] c = "W" -> "w" [] c = "X" -> "x"
              [] c = "Y" -> "y" [] c = "Z" -> "z" [] OTHER -> c
    IN  IF s = "" THEN ""
        ELSE LowerChar(SubSeq(s, 1, 1)) \o lower(SubSeq(s, 2, Len(s)))

\* `t in s` of two strings: t occurs in s.
Contains(s, t) ==
    \E i \in 1..(Len(s) - Len(t) + 1) : SubSeq(s, i, i + Len(t) - 1) = t

\* _extract_category(article): the first category of the list whose name,
\* in lower case, occurs in the URL or the title in lower case.
extract_category(article) ==
    LET url == lower(article.url)
        title == lower(article.title)
        named == {k \in 1..Len(categories) :
                    \/ Contains(url, lower(categories[k]))
                    \/ Contains(title, lower(categories[k]))}
    IN  IF named = {} THEN "General"
        ELSE categories[CHOOSE k \in named : \A j \in named : k <= j]

\* A record of givecare_promoted_articles; last_promoted_at is 0 where the
\* key is missing, the default article.get("last_promoted_at", 0) reads.
PromotedRecord(article, count, first, last) ==
    [title |-> article.title, url |-> article.url, image_url |-> article.image_url,
     category |-> article.category, promotion_count |-> count,
     first_promoted_at |-> first, last_promoted_at |-> last]

AsArticle(r) == [NoArticle EXCEPT !.title = r.title, !.url = r.url,
                                  !.image_url = r.image_url, !.category = r.category]

\* `if not any(pa["url"] == article["url"] for pa in promoted_articles)`
NewPromotable(new_articles, promoted_articles) ==
    SelectSeq(new_articles, LAMBDA a :
        ~\E i \in DOMAIN promoted_articles : promoted_articles[i].url = a.url)

\* A buggy variant: the promotion cap is not applied.
EligibleForRepost_nocap(promoted_articles, current_time) ==
    SelectSeq(promoted_articles, LAMBDA a :
        current_time - a.last_promoted_at >= min_repost_interval)

\* _select_article_for_repost: the eligible articles.
EligibleForRepost(promoted_articles, current_time) ==
    SelectSeq(promoted_articles, LAMBDA a :
        /\ current_time - a.last_promoted_at >= min_repost_interval
        /\ a.promotion_count < max_promotions)

\* The score float(response.strip()) gives, in tenths; -100 is a ValueError.
ScoreOf(response) ==
    CASE response = "0.7" -> 7
      [] response = "0.9" -> 9
      [] response = "1.2" -> 12
      [] OTHER -> -100

\* The entry _queue_for_social_sharing stores.
QueueEntry(article) ==
    [NoArticle EXCEPT !.title = article.title, !.url = article.url,
                      !.image_url = article.image_url, !.category = article.category,
                      !.type = "givecare_promotion"]

\* The promotion history after promoting article at current_time.
UpdatedHistory(promoted_articles, article, promotion_type, current_time) ==
    IF promotion_type = "new"
    THEN Append(promoted_articles,
                PromotedRecord(article, 1, current_time, 0))
    ELSE [i \in DOMAIN promoted_articles |->
            IF promoted_articles[i].url = article.url
            THEN [promoted_articles[i] EXCEPT !.promotion_count = @ + 1,
                                              !.last_promoted_at = current_time]
            ELSE promoted_articles[i]]

\* A buggy variant: a run that finds nothing to promote reports a failure.
Promote_NoAction_error(l) ==
    Return(l, error_result("No suitable content for promotion at this time"))

\* `if not article_to_promote: return success_result({"status": "no_action", ...})`
Promote_NoAction(l) ==
    Return(l, success_result([NoData EXCEPT !.status = "no_action"]))

\* `if not await registry.serper_api_skill.initialize()`
Promote_SerperInitialize(p) ==
    /\ proc[p].pc = "promote:serper_initialize"
    /\ Frame_Registry /\ UNCHANGED <<memory, now, runs>>
    /\ IF ~Registered("serper_api_skill")
       THEN /\ proc' = [proc EXCEPT ![p] =
                  ExecuteExcept(@, NotRegisteredError("serper_api_skill"))]
            /\ UNCHANGED skill_state
       ELSE \E key \in KeyOutcomes :
              LET r == SerperInitialize(skill_state.serper_initialized, key)
                  c == Called(proc[p], <<"initialize", "serper_api_skill">>) IN
              /\ skill_state' = [skill_state EXCEPT !.serper_initialized = r.initialized]
              /\ proc' = [proc EXCEPT ![p] =
                    IF r.ok THEN [c EXCEPT !.pc = "promote:fetch_new_articles"]
                    ELSE InitFailed(c, "serper_api_skill",
                                    "Failed to initialize Serper API skill")]
    /\ WithinFaults(p)

\* _fetch_new_articles: search_news and the categories; any exception gives [].
Promote_FetchNewArticles(p) ==
    /\ proc[p].pc = "promote:fetch_new_articles"
    /\ Frame_Registry /\ UNCHANGED <<memory, now, runs>>
    /\ IF ~Registered("serper_api_skill")
       THEN /\ proc' = [proc EXCEPT ![p] =
                  [@ EXCEPT !.pc = "promote:get_promoted", !.articles = <<>>,
                            !.swallowed = @ \cup {<<"_fetch_new_articles", NotRegisteredError("serper_api_skill")>>}]]
            /\ UNCHANGED skill_state
       ELSE \E key \in KeyOutcomes, http \in {"ok", "error"},
               answer \in SearchAnswers(MaxFetched) :
              LET r == search_news(skill_state.serper_initialized, key, http, answer)
                  c == Called(IF r.success THEN proc[p]
                              ELSE ActionFailed(proc[p], "search_news", r.error),
                              <<"action", "search_news">>) IN
              /\ skill_state' = [skill_state EXCEPT !.serper_initialized = r.initialized]
              /\ proc' = [proc EXCEPT ![p] =
                    [c EXCEPT !.pc = "promote:get_promoted",
                              !.articles = IF r.success
                                  THEN [i \in DOMAIN r.articles |->
                                          [r.articles[i] EXCEPT !.category =
                                              extract_category(r.articles[i])]]
                                  ELSE <<>>]]
    /\ WithinFaults(p)

\* `promoted_articles = await self.memory.get("givecare_promoted_articles") or []`,
\* the choice of new content, and _select_article_for_repost up to its await.
Promote_GetPromoted(p) ==
    /\ proc[p].pc = "promote:get_promoted"
    /\ Frame_Registry /\ UNCHANGED <<skill_state, memory, now, runs>>
    /\ LET c == Called(proc[p], <<"memory", "get">>)
           promoted == MemoryGet("givecare_promoted_articles")
           fresh == NewPromotable(c.articles, promoted)
           eligible == EligibleForRepost(promoted, now) IN
       \/ proc' = [proc EXCEPT ![p] =
                ExecuteExcept(Raise(c, "memory.get failed"), "memory.get failed")]
       \/ proc' = [proc EXCEPT ![p] =
                IF fresh # <<>>
                THEN [c EXCEPT !.pc = "promote:content_initialize",
                               !.promoted = promoted, !.article = Head(fresh),
                               !.promotion_type = "new"]
                ELSE IF eligible = <<>>
                THEN Promote_NoAction([c EXCEPT !.promoted = promoted,
                                                !.declined = "no_eligible"])
                ELSE [c EXCEPT !.pc = "promote:repost_initialize",
                               !.promoted = promoted, !.eligible = eligible]]
    /\ WithinFaults(p)

\* _select_article_for_repost: `if not await registry.chat_skill.initialize():
\* return eligible_articles[0]`; the call is outside any try of the helper.
Promote_RepostInitialize(p) ==
    /\ proc[p].pc = "promote:repost_initialize"
    /\ Frame_Registry /\ UNCHANGED <<skill_state, memory, now, runs>>
    /\ IF ~Registered("chat_skill")
       THEN proc' = [proc EXCEPT ![p] =
                        ExecuteExcept(@, NotRegisteredError("chat_skill"))]
       ELSE \E out \in BoolOutcomes :
              LET c == Called(proc[p], <<"initialize", "chat_skill">>) IN
              proc' = [proc EXCEPT ![p] =
                CASE out = "true" -> [c EXCEPT !.pc = "promote:repost_evaluate",
                                               !.index = 0, !.best = 0,
                                               !.best_score = -10]
                  [] out = "false" ->
                        [c EXCEPT !.pc = "promote:content_initialize",
                                  !.article = AsArticle(Head(c.eligible)),
                                  !.promotion_type = "repost", !.eligible = <<>>,
                                  !.init_false = @ \cup {"chat_skill"},
                                  !.faults = @ + 1]
                  [] OTHER -> ExecuteExcept(Raise(c, "initialize failed"),
                                            "initialize failed")]
    /\ WithinFaults(p)

\* The end of one pass of the evaluation loop; after the last, `return best_article`.
Promote_AfterEvaluate(l) ==
    IF l.index < Len(l.eligible) THEN l
    ELSE IF l.best = 0
    THEN Promote_NoAction([l EXCEPT !.declined = "no_score", !.eligible = <<>>,
                                    !.index = 0])
    ELSE [l EXCEPT !.pc = "promote:content_initialize",
                   !.article = AsArticle(l.eligible[l.best]),
                   !.promotion_type = "repost", !.eligible = <<>>,
                   !.index = 0, !.best = 0, !.best_score = -10]

\* _select_article_for_repost: one get_chat_completion of the loop; an
\* exception or a response that is no number skips the article.
Promote_RepostEvaluate(p) ==
    /\ proc[p].pc = "promote:repost_evaluate"
    /\ Frame_Registry /\ UNCHANGED <<skill_state, memory, now, runs>>
    /\ LET i == proc[p].index + 1
           l == [proc[p] EXCEPT !.index = i]
           c == Called(l, <<"action", "get_chat_completion">>) IN
       IF ~Registered("chat_skill")
       THEN proc' = [proc EXCEPT ![p] = Promote_AfterEvaluate(
                [l EXCEPT !.swallowed = @ \cup {<<"_select_article_for_repost", NotRegisteredError("chat_skill")>>}])]
       ELSE \/ \E response \in ScoreAnswers :
                 proc' = [proc EXCEPT ![p] = Promote_AfterEvaluate(
                    IF ScoreOf(response) > c.best_score
                    THEN [c EXCEPT !.best = i, !.best_score = ScoreOf(response)]
                    ELSE c)]
            \/ proc' = [proc EXCEPT ![p] = Promote_AfterEvaluate(
                    Raise([c EXCEPT !.swallowed = @ \cup {<<"_select_article_for_repost", "get_chat_completion failed">>}],
                          "get_chat_completion failed"))]
    /\ WithinFaults(p)

\* _generate_promotion_content: `if not await registry.chat_skill.initialize():
\* return self._generate_default_promotion_content(...)`, inside the helper's try.
Promote_ContentInitialize(p) ==
    /\ proc[p].pc = "promote:content_initialize"
    /\ Frame_Registry /\ UNCHANGED <<skill_state, memory, now, runs>>
    /\ LET l == proc[p]
           default == [l EXCEPT !.pc = "promote:queue", !.hashtags = "str"] IN
       IF ~Registered("chat_skill")
       THEN proc' = [proc EXCEPT ![p] =
                [default EXCEPT !.swallowed = @ \cup {<<"_generate_promotion_content", NotRegisteredError("chat_skill")>>}]]
       ELSE \E out \in BoolOutcomes :
              proc' = [proc EXCEPT ![p] =
                CASE out = "true" ->
                        Called([l EXCEPT !.pc = "promote:content_completion"],
                               <<"initialize", "chat_skill">>)
                  [] out = "false" ->
                        Called([Fault(default) EXCEPT !.init_false = @ \cup {"chat_skill"}],
                               <<"initialize", "chat_skill">>)
                  [] OTHER ->
                        Called(Raise([default EXCEPT !.swallowed =
                                          @ \cup {<<"_generate_promotion_content", "initialize failed">>}],
                                     "initialize failed"),
                               <<"initialize", "chat_skill">>)]
    /\ WithinFaults(p)

\* What _generate_promotion_content makes of the response of
\* get_chat_completion: JSON with a 'tweet' and a 'hashtags' list of strings;
\* JSON with both keys whose hashtags are not strings, as [1], which
\* `content["hashtags"][:3]` passes on; anything json.loads or the two keys
\* reject, which gives the default content.
ContentResponses == {"json", "json_hashtags_not_str", "not_json"}

\* The hashtags of the promotion content: strings, or items that are none.
ContentHashtags(response) == IF response = "json_hashtags_not_str" THEN "int" ELSE "str"

\* _generate_promotion_content: get_chat_completion; the JSON of the response,
\* or the default content.
Promote_ContentCompletion(p) ==
    /\ proc[p].pc = "promote:content_completion"
    /\ Frame_Registry /\ UNCHANGED <<skill_state, memory, now, runs>>
    /\ LET c == Called([proc[p] EXCEPT !.pc = "promote:queue"],
                       <<"action", "get_chat_completion">>) IN
       IF ~Registered("chat_skill")
       THEN proc' = [proc EXCEPT ![p] =
                [@ EXCEPT !.pc = "promote:queue", !.hashtags = "str",
                          !.swallowed = @ \cup {<<"_generate_promotion_content", NotRegisteredError("chat_skill")>>}]]
       ELSE \/ \E response \in ContentResponses :
                 proc' = [proc EXCEPT ![p] =
                    [c EXCEPT !.hashtags = ContentHashtags(response)]]
            \/ proc' = [proc EXCEPT ![p] =
                    Raise([c EXCEPT !.hashtags = "str", !.swallowed = @ \cup
                              {<<"_generate_promotion_content", "get_chat_completion failed">>}],
                          "get_chat_completion failed")]
    /\ WithinFaults(p)

\* `' '.join(promotion_content['hashtags'])` with an item that is no string.
JoinTypeError == "sequence item 0: expected str instance, int found"

\* _queue_for_social_sharing: the text of the tweet, whose join raises
\* TypeError when the hashtags are not strings, no handler of the helper
\* around it; `await self.memory.store("social_share_queue", [...])`; and the
\* update of the promotion history that follows it in execute.
Promote_Queue(p) ==
    /\ proc[p].pc = "promote:queue"
    /\ Frame_Registry /\ UNCHANGED <<skill_state, now, runs>>
    /\ LET c == Called(proc[p], <<"memory", "store">>) IN
       \/ /\ proc[p].hashtags # "str"
          /\ UNCHANGED memory
          /\ proc' = [proc EXCEPT ![p] = ExecuteExcept(@, JoinTypeError)]
       \/ /\ proc[p].hashtags = "str"
          /\ UNCHANGED memory
          /\ proc' = [proc EXCEPT ![p] =
                ExecuteExcept(Raise(c, "memory.store failed"), "memory.store failed")]
       \/ /\ proc[p].hashtags = "str"
          /\ memory' = MemoryStore(memory, "social_share_queue",
                                   <<QueueEntry(c.article)>>)
          /\ proc' = [proc EXCEPT ![p] =
                [c EXCEPT !.pc = "promote:store_promoted",
                          !.queued = [@ EXCEPT ![<<c.article.url, c.promotion_type>>] = @ + 1],
                          !.promoted = UpdatedHistory(c.promoted, c.article,
                                                      c.promotion_type, now)]]
    /\ WithinFaults(p)

\* `await self.memory.store("givecare_promoted_articles", promoted_articles, ttl=None)`
Promote_StorePromoted(p) ==
    /\ proc[p].pc = "promote:store_promoted"
    /\ Frame_Registry /\ UNCHANGED <<skill_state, now, runs>>
    /\ LET c == Called(proc[p], <<"memory", "store">>) IN
       \/ /\ UNCHANGED memory
          /\ proc' = [proc EXCEPT ![p] =
                ExecuteExcept(Raise(c, "memory.store failed"), "memory.store failed")]
       \/ /\ memory' = MemoryStore(memory, "givecare_promoted_articles", c.promoted)
          /\ proc' = [proc EXCEPT ![p] =
                Return(c, success_result([NoData EXCEPT !.status = "success",
                                                        !.type = c.promotion_type,
                                                        !.article = c.article]))]
    /\ WithinFaults(p)

Promote(p) ==
    \/ Promote_SerperInitialize(p)
    \/ Promote_FetchNewArticles(p)
    \/ Promote_GetPromoted(p)
    \/ Promote_RepostInitialize(p)
    \/ Promote_RepostEvaluate(p)
    \/ Promote_ContentInitialize(p)
    \/ Promote_ContentCompletion(p)
    \/ Promote_Queue(p)
    \/ Promote_StorePromoted(p)

(***************************************************************************)
(* PostLinkedInActivity: activities/activity_post_linkedin.py              *)
(***************************************************************************)
\* A record of the recent_tweets list; it carries no image.
Tweet(timestamp) == [timestamp |-> timestamp, image_url |-> ""]

\* `company_info = await composio_manager._toolset.execute_action("Get Company Info")`
LinkedIn_CompanyInfo(p) ==
    /\ proc[p].pc = "post_linkedin:company_info"
    /\ Frame_Registry /\ UNCHANGED <<skill_state, memory, now, runs>>
    /\ \E out \in BoolOutcomes :
         LET l == Called(proc[p], <<"action", "get_company_info">>) IN
         proc' = [proc EXCEPT ![p] =
           CASE out = "true" -> [l EXCEPT !.pc = "post_linkedin:get_queue"]
             [] out = "false" ->
                   Return(ActionFailed(l, "get_company_info", "error"),
                          error_result("Failed to verify LinkedIn company access for urn:li:organization:106542185"))
             [] OTHER -> ExecuteExcept(Raise(l, "execute_action failed"),
                                       "execute_action failed")]
    /\ WithinFaults(p)

\* _get_content_to_share: `news_queue = await self.memory.get("social_share_queue")`
LinkedIn_GetQueue(p) ==
    /\ proc[p].pc = "post_linkedin:get_queue"
    /\ Frame_Registry /\ UNCHANGED <<skill_state, memory, now, runs>>
    /\ \E out \in CallOutcomes :
         LET l == Called(proc[p], <<"memory", "get">>)
             q == MemoryGet("social_share_queue") IN
         proc' = [proc EXCEPT ![p] =
           IF out = "raise"
           THEN ExecuteExcept(Raise(l, "memory.get failed"), "memory.get failed")
           ELSE IF q # <<>>
           THEN [l EXCEPT !.pc = "post_linkedin:image_initialize", !.source = "news",
                          !.article = q[1], !.image_url = q[1].image_url,
                          !.queue_before = q, !.queue_read = q]
           ELSE [l EXCEPT !.pc = "post_linkedin:get_tweets"]]
    /\ WithinFaults(p)

\* _get_content_to_share: `recent_tweets = await self.memory.get("recent_tweets")`
\* and, in execute, `if not content_data`.
LinkedIn_GetTweets(p) ==
    /\ proc[p].pc = "post_linkedin:get_tweets"
    /\ Frame_Registry /\ UNCHANGED <<skill_state, memory, now, runs>>
    /\ \E out \in CallOutcomes :
         LET l == Called(proc[p], <<"memory", "get">>)
             tweets == MemoryGet("recent_tweets") IN
         proc' = [proc EXCEPT ![p] =
           IF out = "raise"
           THEN ExecuteExcept(Raise(l, "memory.get failed"), "memory.get failed")
           ELSE IF tweets # <<>>
           THEN [l EXCEPT !.pc = "post_linkedin:image_initialize",
                          !.source = "twitter", !.image_url = tweets[1].image_url]
           ELSE Return(l, error_result("No content available to share"))]
    /\ WithinFaults(p)

\* `if not await self.image_skill.initialize()` and the choice of the image.
LinkedIn_ImageInitialize(p) ==
    /\ proc[p].pc = "post_linkedin:image_initialize"
    /\ Frame_Registry /\ UNCHANGED <<memory, now, runs>>
    /\ ImageInitStep(p, LinkedInImage, "Image generation skill not available",
                     IF proc[p].image_url \notin {"", NoneValue}
                     THEN "post_linkedin:create_post"
                                               ELSE "post_linkedin:generate_image")
    /\ WithinFaults(p)

\* A buggy variant: the post goes out without an image.
LinkedIn_ImageFailed_ignored(l) == [l EXCEPT !.pc = "post_linkedin:create_post"]

\* `if not image_result.get("success"): return error_result("Failed to generate image")`
LinkedIn_ImageFailed(l) == Return(l, error_result("Failed to generate image"))

\* `image_result = await self.image_skill.generate_image(...)`
LinkedIn_GenerateImage(p) ==
    /\ proc[p].pc = "post_linkedin:generate_image"
    /\ Frame_Registry /\ UNCHANGED <<memory, now, runs>>
    /\ \E key \in KeyOutcomes, api \in ApiOutcomes :
         LET r == ImageStep(proc[p], ImageState(LinkedInImage), "png", key, api)
             c == Resumed(proc[p], r) IN
         /\ skill_state' = SetImage(LinkedInImage, r.st)
         /\ proc' = [proc EXCEPT ![p] =
               IF ~r.returned THEN Suspend(@, r)
               ELSE IF ~r.success THEN LinkedIn_ImageFailed(c)
               ELSE IF r.url = ""
               THEN Return(c, error_result("No image URL in generation result"))
               ELSE [c EXCEPT !.pc = "post_linkedin:create_post", !.image_url = r.url]]
    /\ WithinFaults(p)

LinkedIn_Result(l) ==
    success_result([NoData EXCEPT !.type = IF l.source = "news" THEN "article"
                                                                ELSE "tweet"])

\* `post_result = await composio_manager._toolset.execute_action("Create LinkedIn Post")`
LinkedIn_CreatePost(p) ==
    /\ proc[p].pc = "post_linkedin:create_post"
    /\ Frame_Registry /\ UNCHANGED <<skill_state, memory, now, runs>>
    /\ \E out \in BoolOutcomes :
         LET l == Called(proc[p], <<"action", "create_linkedin_post">>) IN
         proc' = [proc EXCEPT ![p] =
           CASE out = "true" ->
                   IF l.source = "news"
                   THEN [l EXCEPT !.pc = "post_linkedin:update_get",
                                  !.posted = Append(@, l.article)]
                   ELSE Return(l, LinkedIn_Result(l))
             [] out = "false" ->
                   Return(ActionFailed(l, "create_linkedin_post", "error"),
                          error_result("Failed to create LinkedIn post: error"))
             [] OTHER -> ExecuteExcept(Raise(l, "execute_action failed"),
                                       "execute_action failed")]
    /\ WithinFaults(p)

\* `except Exception as e: logger.error(...)` of _update_share_queue, after
\* which execute returns its success.
LinkedIn_UpdateExcept(l, message) ==
    Return([Raise(l, message) EXCEPT
               !.swallowed = @ \cup {<<"_update_share_queue", message>>}],
           LinkedIn_Result(l))

\* _update_share_queue: `queue = await self.memory.get("social_share_queue") or []`
\* and `queue.pop(0)`.
LinkedIn_UpdateGet(p) ==
    /\ proc[p].pc = "post_linkedin:update_get"
    /\ Frame_Registry /\ UNCHANGED <<skill_state, memory, now, runs>>
    /\ \E out \in CallOutcomes :
         LET l == Called(proc[p], <<"memory", "get">>)
             q == MemoryGet("social_share_queue") IN
         proc' = [proc EXCEPT ![p] =
           IF out = "raise" THEN LinkedIn_UpdateExcept(l, "memory.get failed")
           ELSE IF q = <<>> THEN Return(l, LinkedIn_Result(l))
           ELSE [l EXCEPT !.queue_before = q, !.queue = pop_head(q),
                          !.pc = IF pop_head(q) # <<>> THEN "post_linkedin:update_store"
                                                   ELSE "post_linkedin:update_delete"]]
    /\ WithinFaults(p)

\* _update_share_queue: `await self.memory.store("social_share_queue", queue, ttl=43200)`
LinkedIn_UpdateStore(p) ==
    /\ proc[p].pc = "post_linkedin:update_store"
    /\ Frame_Registry /\ UNCHANGED <<skill_state, now, runs>>
    /\ \E out \in CallOutcomes :
         LET l == Called(proc[p], <<"memory", "store">>) IN
         IF out = "raise"
         THEN /\ proc' = [proc EXCEPT ![p] =
                            LinkedIn_UpdateExcept(l, "memory.store failed")]
              /\ UNCHANGED memory
         ELSE /\ memory' = MemoryStore(memory, "social_share_queue", l.queue)
              /\ proc' = [proc EXCEPT ![p] = Return(l, LinkedIn_Result(l))]
    /\ WithinFaults(p)

\* _update_share_queue: `await self.memory.delete("social_share_queue")`
LinkedIn_UpdateDelete(p) ==
    /\ proc[p].pc = "post_linkedin:update_delete"
    /\ Frame_Registry /\ UNCHANGED <<skill_state, now, runs>>
    /\ \E out \in CallOutcomes :
         LET l == Called(proc[p], <<"memory", "delete">>) IN
         IF out = "raise"
         THEN /\ proc' = [proc EXCEPT ![p] =
                            LinkedIn_UpdateExcept(l, "memory.delete failed")]
              /\ UNCHANGED memory
         ELSE /\ memory' = MemoryDelete(memory, "social_share_queue")
              /\ proc' = [proc EXCEPT ![p] = Return(l, LinkedIn_Result(l))]
    /\ WithinFaults(p)

LinkedIn(p) ==
    \/ LinkedIn_CompanyInfo(p)
    \/ LinkedIn_GetQueue(p)
    \/ LinkedIn_GetTweets(p)
    \/ LinkedIn_ImageInitialize(p)
    \/ LinkedIn_GenerateImage(p)
    \/ LinkedIn_CreatePost(p)
    \/ LinkedIn_UpdateGet(p)
    \/ LinkedIn_UpdateStore(p)
    \/ LinkedIn_UpdateDelete(p)

(***************************************************************************)
(* PersonalizedCaregiverSupportActivity:                                   *)
(*   activities/activity_personalized_caregiver_support.py                 *)
(***************************************************************************)
min_time_between_posts == 3600
recent_hours == 4

\* _get_recent_tweets(hours): the records newer than the cutoff.
get_recent_tweets(tweets, current_time, hours) ==
    SelectSeq(tweets, LAMBDA tweet : tweet.timestamp > current_time - hours * 3600)

\* The loop of execute: some recent record is younger than the minimum interval.
too_soon(tweets, current_time) ==
    \E i \in 1..Len(tweets) : current_time - tweets[i].timestamp < min_time_between_posts

\* `recent_tweets = await self._get_recent_tweets(hours=4)` and the loop that
\* follows; an exception of memory.get leaves the list empty.
CaregiverSupport_GetRecentTweets(p) ==
    /\ proc[p].pc = "caregiver_support:get_recent_tweets"
    /\ Frame_Registry /\ UNCHANGED <<skill_state, memory, now, runs>>
    /\ \E out \in CallOutcomes :
         LET c == Called(proc[p], <<"memory", "get">>)
             l == IF out = "raise"
                  THEN [Raise(c, "memory.get failed") EXCEPT
                            !.swallowed = @ \cup {<<"_get_recent_tweets", "memory.get failed">>}]
                  ELSE c
             recent == IF out = "raise" THEN <<>>
                       ELSE get_recent_tweets(MemoryGet("recent_tweets"), now,
                                              recent_hours) IN
         proc' = [proc EXCEPT ![p] =
           IF too_soon(recent, now)
           THEN Return([l EXCEPT !.declined = "too_soon", !.read_time = now],
                       success_result([NoData EXCEPT !.skipped = TRUE]))
           ELSE [l EXCEPT !.pc = "caregiver_support:chat_initialize",
                          !.read_time = now]]
    /\ WithinFaults(p)

CaregiverSupport_ChatInitialize(p) ==
    /\ proc[p].pc = "caregiver_support:chat_initialize"
    /\ Frame_Registry /\ UNCHANGED <<skill_state, memory, now, runs>>
    /\ Continue(p, {IF l.pc = "caregiver_support:chat_completion" /\ l.shared_data.is_none
                    THEN ExecuteExcept(l, NoneTypeError) ELSE l :
                    l \in ChatInitialize(proc[p], "chat_skill", TRUE,
                            "Chat skill not available",
                            "caregiver_support:chat_completion")})
    /\ WithinFaults(p)

CaregiverSupport_ChatCompletion(p) ==
    /\ proc[p].pc = "caregiver_support:chat_completion"
    /\ Frame_Registry /\ UNCHANGED <<skill_state, memory, now, runs>>
    /\ Continue(p, ChatCompletion(proc[p], "chat_skill", TRUE,
                                  "caregiver_support:image_initialize"))
    /\ WithinFaults(p)

CaregiverSupport_ImageInitialize(p) ==
    /\ proc[p].pc = "caregiver_support:image_initialize"
    /\ Frame_Registry /\ UNCHANGED <<memory, now, runs>>
    /\ IF ~Registered("image_generation_skill")
       THEN /\ proc' = [proc EXCEPT ![p] =
                  ExecuteExcept(@, NotRegisteredError("image_generation_skill"))]
            /\ UNCHANGED skill_state
       ELSE ImageInitStep(p, Lookup("image_generation_skill"),
                          "Image generation skill not available",
                          "caregiver_support:generate_image")
    /\ WithinFaults(p)

CaregiverSupport_GenerateImage(p) ==
    /\ proc[p].pc = "caregiver_support:generate_image"
    /\ Frame_Registry /\ UNCHANGED <<memory, now, runs>>
    /\ IF ~Registered("image_generation_skill")
       THEN /\ proc' = [proc EXCEPT ![p] =
                  ExecuteExcept(@, NotRegisteredError("image_generation_skill"))]
            /\ UNCHANGED skill_state
       ELSE ImageGenerateStep(p, Lookup("image_generation_skill"),
                              "caregiver_support:lite_initialize")
    /\ WithinFaults(p)

CaregiverSupport_LiteInitialize(p) ==
    /\ proc[p].pc = "caregiver_support:lite_initialize"
    /\ Frame_Registry /\ UNCHANGED <<skill_state, memory, now, runs>>
    /\ Continue(p, ChatInitialize(proc[p], "lite_llm_skill", TRUE,
                        "Lite LLM skill not available",
                        "caregiver_support:trigger_activity"))
    /\ WithinFaults(p)

\* `news_result = await self.trigger_activity("fetch_news", {...})`; the
\* framework that runs the triggered activity is not part of the sources.
CaregiverSupport_TriggerActivity(p) ==
    /\ proc[p].pc = "caregiver_support:trigger_activity"
    /\ Frame_Registry /\ UNCHANGED <<skill_state, memory, now, runs>>
    /\ \E out \in CallOutcomes :
         LET l == Called(proc[p], <<"trigger", "fetch_news">>) IN
         proc' = [proc EXCEPT ![p] =
           IF out = "raise"
           THEN ExecuteExcept(Raise(l, "trigger_activity failed"),
                              "trigger_activity failed")
           ELSE [l EXCEPT !.pc = "caregiver_support:get_articles"]]
    /\ WithinFaults(p)

\* `recent_articles = await self.memory.get(f"conversation_articles_{conversation_id}")`:
\* the list the triggered activity left under the conversation's key, or None.
CaregiverSupport_GetArticles(p) ==
    /\ proc[p].pc = "caregiver_support:get_articles"
    /\ Frame_Registry /\ UNCHANGED <<skill_state, memory, now, runs>>
    /\ \E out \in CallOutcomes, found \in BOOLEAN :
         LET l == Called(proc[p], <<"memory", "get">>) IN
         proc' = [proc EXCEPT ![p] =
           IF out = "raise"
           THEN ExecuteExcept(Raise(l, "memory.get failed"), "memory.get failed")
           ELSE [l EXCEPT !.pc = "caregiver_support:resource_completion",
                          !.has_articles = found]]
    /\ WithinFaults(p)

\* `resource_response = await registry.lite_llm_skill.get_chat_completion(...)`
CaregiverSupport_ResourceCompletion(p) ==
    /\ proc[p].pc = "caregiver_support:resource_completion"
    /\ Frame_Registry /\ UNCHANGED <<skill_state, memory, now, runs>>
    /\ Continue(p, {IF l.pc = "caregiver_support:resource_image" /\ ~l.has_articles
                    THEN Return(l, success_result(NoData)) ELSE l :
                    l \in ChatCompletion(proc[p], "lite_llm_skill", TRUE,
                                         "caregiver_support:resource_image")})
    /\ WithinFaults(p)

\* `resource_image = await registry.image_generation_skill.generate_image(...)`
\* and the return of the success.
CaregiverSupport_ResourceImage(p) ==
    /\ proc[p].pc = "caregiver_support:resource_image"
    /\ Frame_Registry /\ UNCHANGED <<memory, now, runs>>
    /\ IF ~Registered("image_generation_skill")
       THEN /\ proc' = [proc EXCEPT ![p] =
                  ExecuteExcept(@, NotRegisteredError("image_generation_skill"))]
            /\ UNCHANGED skill_state
       ELSE \E key \in KeyOutcomes, api \in ApiOutcomes :
              LET inst == Lookup("image_generation_skill")
                  r == ImageStep(proc[p], ImageState(inst), "png", key, api)
                  c == Resumed(proc[p], r) IN
              /\ skill_state' = SetImage(inst, r.st)
              /\ proc' = [proc EXCEPT ![p] =
                    IF ~r.returned THEN Suspend(@, r)
                    ELSE Return(c, success_result(NoData))]
    /\ WithinFaults(p)

CaregiverSupport(p) ==
    \/ CaregiverSupport_GetRecentTweets(p)
    \/ CaregiverSupport_ChatInitialize(p)
    \/ CaregiverSupport_ChatCompletion(p)
    \/ CaregiverSupport_ImageInitialize(p)
    \/ CaregiverSupport_GenerateImage(p)
    \/ CaregiverSupport_LiteInitialize(p)
    \/ CaregiverSupport_TriggerActivity(p)
    \/ CaregiverSupport_GetArticles(p)
    \/ CaregiverSupport_ResourceCompletion(p)
    \/ CaregiverSupport_ResourceImage(p)

(***************************************************************************)
(* The scheduler, the clock and the specifications                         *)
(***************************************************************************)
Activities == {"post_a_tweet", "fetch_news", "post_linkedin", "promote",
               "caregiver_support", "checkin", "emotional_support",
               "emotional_checkins", "draw"}

\* The first await of execute.
FirstPc(activity) ==
    CASE activity = "post_a_tweet" -> "post_a_tweet:initialize"
      [] activity = "fetch_news" -> "fetch_news:serper_initialize"
      [] activity = "post_linkedin" -> "post_linkedin:company_info"
      [] activity = "promote" -> "promote:serper_initialize"
      [] activity = "caregiver_support" -> "caregiver_support:get_recent_tweets"
      [] activity = "checkin" -> "checkin:chat_initialize"
      [] activity = "emotional_support" -> "emotional_support:chat_initialize"
      [] activity = "emotional_checkins" -> "emotional_checkins:chat_initialize"
      [] OTHER -> "draw:initialize"

\* The values of shared_data an activity is started with: None, a mapping
\* without the keys the activity reads, and mappings with them.
SharedInputs(activity) ==
    {NoneData, SharedData("", "", "")}
    \cup (IF activity = "post_a_tweet" THEN {SharedData("hello", "", "")} ELSE {})
    \cup (IF activity = "draw" THEN {SharedData("", "schedule", "")} ELSE {})
    \cup (IF activity = "fetch_news"
          THEN {SharedData("", "conversation", "resources"),
                SharedData("", "content_creation", "")}
          ELSE {})

\* The framework calls execute(shared_data) of an activity; one execution
\* runs at a time.
Start(p, activity, shared_data) ==
    /\ runs < MaxRuns
    /\ \A q \in Procs : proc[q].pc \in {"idle", "done"}
    /\ proc' = [proc EXCEPT ![p] = [Idle EXCEPT !.pc = FirstPc(activity),
                                                !.activity = activity,
                                                !.shared_data = shared_data,
                                                !.queue_at_start =
                                                    MemoryGet("social_share_queue")]]
    /\ runs' = runs + 1
    /\ UNCHANGED <<package, stored_names, last_lookup, failed_aliases, bound_aliases, register_raised, skill_modules, skill_instances, next_instance, alias_links,
                   skill_state, memory, now>>

StartTime == 2 * min_repost_interval
TimeStep == min_time_between_posts \div 2

\* Time passes between two executions.
Tick ==
    /\ now < StartTime + MaxTicks * TimeStep
    /\ \A q \in Procs : proc[q].pc \in {"idle", "done"}
    /\ now' = now + TimeStep
    /\ UNCHANGED <<package, stored_names, last_lookup, failed_aliases, bound_aliases, register_raised, skill_modules, skill_instances, next_instance, alias_links,
                   skill_state, memory, proc, runs>>

\* An article as fetch_news queues it: relevant and of a shareable category.
Analysed(i) == [SearchArticle(i) EXCEPT !.relevance_score = 9,
                                        !.categories = <<"resources">>]
Promotable(i) == [SearchArticle(i) EXCEPT !.category = extract_category(SearchArticle(i))]

\* The memory store outlives the process.  What earlier sessions may have
\* left in it when the being starts: nothing; two tweets, one older than the
\* window and one half an interval old; a queue of one or of two articles that
\* fetch_news shared; a promotion history with one article promoted as new; a
\* history with one article reposted half an interval ago and one promoted
\* max_promotions times.
PersistedMemory ==
    { EmptyMemory,
      MemoryStore(EmptyMemory, "recent_tweets",
                  <<Tweet(StartTime - recent_hours * 3600), Tweet(StartTime - TimeStep)>>),
      MemoryStore(EmptyMemory, "social_share_queue",
                  ShareableArticles(<<Analysed(1)>>)),
      MemoryStore(EmptyMemory, "social_share_queue",
                  ShareableArticles(<<Analysed(1), Analysed(2)>>)),
      MemoryStore(EmptyMemory, "givecare_promoted_articles",
                  UpdatedHistory(<<>>, Promotable(1), "new", StartTime - TimeStep)),
      MemoryStore(EmptyMemory, "givecare_promoted_articles",
                  << PromotedRecord(Promotable(1), 2, 0, StartTime - TimeStep),
                     PromotedRecord(Promotable(2), max_promotions, 0, 0) >>) }

Init ==
    /\ package = "loaded"
    /\ stored_names = InitialNames
    /\ last_lookup = NoLookup
    /\ failed_aliases = {}
    /\ bound_aliases = {}
    /\ register_raised = ""
    /\ skill_modules = {"skill_chat", "skill_generate_image", "skill_serper_api"}
    /\ skill_instances = InitialRegistry
    /\ next_instance = FirstFresh
    /\ alias_links = {<<"lite_llm_skill", "chat_skill">>}
    /\ skill_state = [serper_initialized |-> FALSE,
                      image |-> [i \in ImageInstances |-> NewImageSkill]]
    /\ memory \in PersistedMemory
    /\ now = StartTime
    /\ proc = [p \in Procs |-> Idle]
    /\ runs = 0

\* A deployment may add the X API skill to the registry.
RegisterXApi ==
    /\ runs = 0
    /\ ~Registered("x_api_skill")
    /\ \E import_ok \in BOOLEAN :
         RegisterSkillModule("skill_x_api", "x_api_skill", "", "", import_ok, "ok")
    /\ UNCHANGED package

Step(p) ==
    \/ PostTweet(p)
    \/ FetchNews(p)
    \/ LinkedIn(p)
    \/ Promote(p)
    \/ CaregiverSupport(p)
    \/ Checkin(p)
    \/ Support(p)
    \/ Checkins(p)
    \/ Draw(p)

(***************************************************************************)
(* The registry on its own: any sequence of registrations and aliases      *)
(***************************************************************************)
\* The arguments of register_skill_module (module_name, attr_name,
\* instance_name, init_args): the calls of __init__, the optional X API skill,
\* a class stored under its own name, with and without init_args, instances
\* stored under another skill's name, and an attribute the module lacks.
RegisterInputs ==
    { <<"skill_chat", "chat_skill", "", "">>,
      <<"skill_generate_image", "ImageGenerationSkill", "image_generation_skill",
        "config">>,
      <<"skill_generate_image", "ImageGenerationSkill", "", "config">>,
      <<"skill_generate_image", "ImageGenerationSkill", "", "">>,
      <<"skill_serper_api", "serper_api_skill", "", "">>,
      <<"skill_x_api", "x_api_skill", "", "">>,
      <<"skill_serper_api", "serper_api_skill", "chat_skill", "">>,
      <<"skill_chat", "chat_skill", "lite_llm_skill", "">>,
      <<"skill_chat", "no_such_attribute", "", "">> }

AliasNames == {"lite_llm_skill", "chat_skill", "x_api_skill"}
OriginalNames == {"chat_skill", "serper_api_skill", "x_api_skill", "lite_llm_skill"}

InitRegistry ==
    /\ package = "loaded"
    /\ stored_names = InitialNames
    /\ last_lookup = NoLookup
    /\ failed_aliases = {}
    /\ bound_aliases = {}
    /\ register_raised = ""
    /\ skill_modules = {"skill_chat", "skill_generate_image", "skill_serper_api"}
    /\ skill_instances = InitialRegistry
    /\ next_instance = FirstFresh
    /\ alias_links = {<<"lite_llm_skill", "chat_skill">>}
    /\ skill_state = [serper_initialized |-> FALSE,
                      image |-> [i \in ImageInstances |-> NewImageSkill]]
    /\ memory = EmptyMemory
    /\ now = StartTime
    /\ proc = [p \in Procs |-> Idle]
    /\ runs = 0

\* A call of register_skill_module after the package is loaded: the import
\* succeeds or fails, a class is called with or without init_args, and the
\* constructor, which returned when the package was loaded, returns.
Registry_Register ==
    /\ package = "loaded"
    /\ \E input \in RegisterInputs, import_ok \in BOOLEAN :
         RegisterSkillModule(input[1], input[2], input[3], input[4], import_ok, "ok")
    /\ UNCHANGED package

\* A call of register_alias after the package is loaded.
Registry_Alias ==
    /\ package = "loaded"
    /\ \E alias_name \in AliasNames, original_name \in OriginalNames :
         RegisterAlias(alias_name, original_name)
    /\ UNCHANGED <<package, failed_aliases, bound_aliases>>

\* A call of register_alias, with a record of the call when the original is
\* not registered; the alias may also be a name nothing is registered under.
Registry_AliasRecorded ==
    /\ package = "loaded"
    /\ \E alias_name \in AliasNames \cup {"ImageGenerationSkill"},
          original_name \in OriginalNames :
         /\ RegisterAlias(alias_name, original_name)
         /\ failed_aliases' =
               IF original_name \in stored_names
               THEN {f \in failed_aliases : f[1] # alias_name}
               ELSE {<<alias_name, original_name, Lookup(alias_name)>>}
    /\ UNCHANGED <<package, bound_aliases>>

\* A call of register_alias, with a record of the instance the alias was
\* bound to when the call created it.
Registry_AliasBound ==
    /\ package = "loaded"
    /\ \E alias_name \in AliasNames, original_name \in OriginalNames :
         /\ RegisterAlias(alias_name, original_name)
         /\ bound_aliases' =
               IF original_name \in stored_names
               THEN {f \in bound_aliases : f[1] # alias_name}
                    \cup {<<alias_name, original_name, Lookup(original_name)>>}
               ELSE bound_aliases
    /\ UNCHANGED <<package, failed_aliases>>

\* An attribute lookup on the registry: __getattr__ reads and writes nothing.
Registry_Lookup ==
    /\ package = "loaded"
    /\ \E name \in RegNames : last_lookup' = GetAttr(name)
    /\ UNCHANGED <<package, stored_names, failed_aliases, bound_aliases, register_raised, skill_modules, skill_instances,
                   next_instance, alias_links, skill_state, memory, now, proc, runs>>

NextRegistry ==
    \/ Registry_Register
    \/ Registry_Alias
    \/ Registry_Lookup

SpecRegistry == InitRegistry /\ [][NextRegistry]_vars

\* The registry with the failed aliases on record.
NextAlias ==
    \/ Registry_Register
    \/ Registry_AliasRecorded

SpecAlias == InitRegistry /\ [][NextAlias]_vars

\* The registry with the bindings of its aliases on record.
NextBound ==
    \/ Registry_Register
    \/ Registry_AliasBound

SpecBound == InitRegistry /\ [][NextBound]_vars

(***************************************************************************)
(* The import of the skills package: skills/__init__.py, module level      *)
(***************************************************************************)
\* `registry = SkillRegistry()`: the four calls of __init__, each of whose
\* imports may fail with an ImportError.
Package_RegisterChat ==
    /\ package = "register_chat"
    /\ \E import_ok \in BOOLEAN :
         RegisterSkillModule("skill_chat", "chat_skill", "", "", import_ok, "ok")
    /\ package' = "register_image"

Package_RegisterImage ==
    /\ package = "register_image"
    /\ \E import_ok \in BOOLEAN, construct \in ConstructOutcomes :
         /\ RegisterSkillModule("skill_generate_image", "ImageGenerationSkill",
                                "image_generation_skill", "config", import_ok,
                                construct)
         \* an exception that register_skill_module does not catch leaves
         \* __init__ and the import of the package
         /\ package' = IF RegisterRaises("skill_generate_image",
                                         "ImageGenerationSkill", "config",
                                         import_ok, construct) = ""
                       THEN "alias_lite" ELSE "failed"

Package_AliasLite ==
    /\ package = "alias_lite"
    /\ RegisterAlias("lite_llm_skill", "chat_skill")
    /\ package' = "register_serper"
    /\ UNCHANGED <<failed_aliases, bound_aliases>>

Package_RegisterSerper ==
    /\ package = "register_serper"
    /\ \E import_ok \in BOOLEAN :
         RegisterSkillModule("skill_serper_api", "serper_api_skill", "", "", import_ok, "ok")
    /\ package' = "export_chat"

\* `<name> = registry.<name>` at module level: the AttributeError of
\* __getattr__ is not caught, and the import of the package fails with it.
Package_Export(name, next) ==
    /\ package' = IF Registered(name) THEN next ELSE "failed"
    /\ UNCHANGED <<stored_names, last_lookup, failed_aliases, bound_aliases, register_raised, skill_modules,
                   skill_instances, next_instance, alias_links, skill_state, memory,
                   now, proc, runs>>

Package_ExportChat ==
    /\ package = "export_chat"
    /\ Package_Export("chat_skill", "export_image")

Package_ExportImage ==
    /\ package = "export_image"
    /\ Package_Export("image_generation_skill", "export_lite")

Package_ExportLite ==
    /\ package = "export_lite"
    /\ Package_Export("lite_llm_skill", "loaded")

InitPackage ==
    /\ package = "register_chat"
    /\ stored_names = {}
    /\ last_lookup = NoLookup
    /\ failed_aliases = {}
    /\ bound_aliases = {}
    /\ register_raised = ""
    /\ skill_modules = {}
    /\ skill_instances = EmptyRegistry
    /\ next_instance = RegistryImage[2]
    /\ alias_links = {}
    /\ skill_state = [serper_initialized |-> FALSE,
                      image |-> [i \in ImageInstances |-> NewImageSkill]]
    /\ memory = EmptyMemory
    /\ now = StartTime
    /\ proc = [p \in Procs |-> Idle]
    /\ runs = 0

NextPackage ==
    \/ Package_RegisterChat
    \/ Package_RegisterImage
    \/ Package_AliasLite
    \/ Package_RegisterSerper
    \/ Package_ExportChat
    \/ Package_ExportImage
    \/ Package_ExportLite
    \/ Registry_Register
    \/ Registry_Alias

SpecPackage == InitPackage /\ [][NextPackage]_vars

Next ==
    \/ \E activity \in Activities : \E shared_data \in SharedInputs(activity) :
         Start("p1", activity, shared_data)
    \/ Step("p1")
    \/ Tick
    \/ RegisterXApi

Spec == Init /\ [][Next]_vars

(***************************************************************************)
(* Two executions of PersonalizedCaregiverSupportActivity, one after the   *)
(* other                                                                   *)
(***************************************************************************)
\* The framework calls execute(shared_data) of the caregiver support
\* activity: execution p1 first, execution p2 once p1 has returned.
Dedup_Start(p) ==
    /\ runs = (IF p = "p1" THEN 0 ELSE 1)
    /\ \A q \in Procs : proc[q].pc \in {"idle", "done"}
    /\ \E shared_data \in SharedInputs("caregiver_support") :
         proc' = [proc EXCEPT ![p] =
                    [Idle EXCEPT !.pc = FirstPc("caregiver_support"),
                                 !.activity = "caregiver_support",
                                 !.shared_data = shared_data,
                                 !.queue_at_start = MemoryGet("social_share_queue")]]
    /\ runs' = runs + 1
    /\ Frame_Registry /\ UNCHANGED <<skill_state, memory, now>>

\* The store holds no tweets, or the tweets an earlier session left.
InitDedup ==
    /\ Init
    /\ memory.keys \subseteq {"recent_tweets"}

NextDedup ==
    \/ Dedup_Start("p1")
    \/ CaregiverSupport("p1")
    \/ Tick
    \/ Dedup_Start("p2")
    \/ CaregiverSupport("p2")

SpecDedup == InitDedup /\ [][NextDedup]_vars

(***************************************************************************)
(* Two executions of PostTweetActivity at the same time                    *)
(***************************************************************************)
\* The framework calls execute(shared_data) of the posting activity while
\* another execution of it may be suspended at an await.
Concurrent_Start(p) ==
    /\ proc[p].pc = "idle"
    /\ \E shared_data \in SharedInputs("post_a_tweet") :
         proc' = [proc EXCEPT ![p] =
                    [Idle EXCEPT !.pc = FirstPc("post_a_tweet"),
                                 !.activity = "post_a_tweet",
                                 !.shared_data = shared_data,
                                 !.queue_at_start = MemoryGet("social_share_queue")]]
    /\ runs' = runs + 1
    /\ Frame_Registry /\ UNCHANGED <<skill_state, memory, now>>

\* The store holds a queue of one or of two articles.
InitConcurrent ==
    /\ Init
    /\ memory.keys = {"social_share_queue"}

NextConcurrent ==
    \/ RegisterXApi
    \/ Concurrent_Start("p1")
    \/ Concurrent_Start("p2")
    \/ PostTweet("p1")
    \/ PostTweet("p2")

SpecConcurrent == InitConcurrent /\ [][NextConcurrent]_vars

(***************************************************************************)
(* Properties                                                              *)
(***************************************************************************)
Finished(p) == proc[p].pc = "done"
MemoryWrites == {<<"memory", "store">>, <<"memory", "delete">>, <<"memory", "set">>}

\* C1: execute never propagates an exception: whatever shared_data is and
\* whatever a skill, registry or memory call does, no execution is left by an
\* exception, and an execution that saw one raised at its boundary has
\* finished with an ActivityResult.
C1_NeverPropagates ==
    \A p \in Procs :
        /\ proc[p].pc # "propagated"
        /\ proc[p].boundary_exc # NoError => Finished(p) /\ proc[p].result # NoResult
        /\ Finished(p) => proc[p].result # NoResult

\* An execution started with shared_data None has ended in the handler of
\* execute.
C1_Witness ==
    \E p \in Procs :
        /\ Finished(p) /\ proc[p].boundary_exc = NoneTypeError
        /\ proc[p].shared_data.is_none

\* The messages that name a skill.
NamesSkill(error, skill) ==
    CASE skill = "x_api_skill" -> error = "X API skill not available"
      [] skill = "chat_skill" -> error = "Chat skill not available"
      [] skill = "lite_llm_skill" -> error = "Lite LLM skill not available"
      [] skill = "image_generation_skill" ->
            error \in {"Image generation skill not available",
                       "Failed to initialize image generation skill"}
      [] skill = "serper_api_skill" -> error = "Failed to initialize Serper API skill"
      [] OTHER -> FALSE

\* C2 as stated: whenever some skill's initialize() returned False during an
\* execution, the execution ends in a failure.
C2_Original ==
    \A p \in Procs :
        Finished(p) /\ proc[p].init_false # {} => ~proc[p].result.success

\* C2, amended: when an initialize() that execute itself awaits returns
\* False, execute returns at once a failure whose message names that skill.
C2_DirectInitFailure ==
    \A p \in Procs :
        proc[p].init_failed # "" =>
            /\ Finished(p)
            /\ ~proc[p].result.success
            /\ NamesSkill(proc[p].result.error, proc[p].init_failed)

C2_Witness ==
    \E p \in Procs :
        /\ Finished(p) /\ proc[p].init_failed = "image_generation_skill"
        /\ proc[p].activity = "post_linkedin"
        /\ proc[p].result.error = "Image generation skill not available"

\* recent_tweets held, when execution p read it, a record inside the window
\* and younger than min_time_between_posts.
Qualifying(p) ==
    \E i \in 1..Len(MemoryGet("recent_tweets")) :
        LET timestamp == MemoryGet("recent_tweets")[i].timestamp IN
        /\ timestamp > proc[p].read_time - recent_hours * 3600
        /\ proc[p].read_time - timestamp < min_time_between_posts

\* The execution returned the skip and did nothing but read memory.
SkippedQuietly(p) ==
    /\ proc[p].result.success
    /\ proc[p].result.data.skipped
    /\ proc[p].calls \subseteq {<<"memory", "get">>}

\* C3 as stated: whenever recent_tweets holds a qualifying record, the
\* execution of personalized_caregiver_support returns the skip without any
\* skill call, trigger_activity call or memory write.
C3_Original ==
    \A p \in Procs :
        Finished(p) /\ proc[p].activity = "caregiver_support" /\ Qualifying(p)
            => SkippedQuietly(p)

PostingActivities == {"post_a_tweet", "post_linkedin"}

\* The queue is the queue the execution read less its head; an empty
\* remainder is no key at all.
HeadRemoved(p) ==
    /\ proc[p].queue_before # <<>>
    /\ proc[p].posted = <<Head(proc[p].queue_before)>>
    /\ MemoryGet("social_share_queue") = Tail(proc[p].queue_before)
    /\ ("social_share_queue" \in memory.keys) = (Tail(proc[p].queue_before) # <<>>)

\* C4 as stated: after a successful post of the head of the queue, the head
\* has been removed, the rest is stored in order, and an empty rest is deleted.
C4_Original ==
    \A p \in Procs :
        /\ Finished(p) /\ proc[p].activity \in PostingActivities
        /\ proc[p].posted # <<>>
        => HeadRemoved(p)

\* post_a_tweet ran to its end against the registry SkillRegistry.__init__
\* builds, and no call it made failed.
PackageRun(p) ==
    /\ Finished(p) /\ proc[p].activity = "post_a_tweet"
    /\ skill_instances = InitialRegistry
    /\ proc[p].faults = 0

\* C5: with a queue of exactly one article and the post succeeding,
\* post_a_tweet run against the package's registry returns success with type
\* "news" and the article, and the queue key is deleted.
C5_NewsScenario ==
    \A p \in Procs :
        PackageRun(p) /\ Len(proc[p].queue_at_start) = 1 =>
            /\ proc[p].result.success
            /\ proc[p].result.data.type = "news"
            /\ proc[p].result.data.article = proc[p].queue_at_start[1]
            /\ "social_share_queue" \notin memory.keys

\* C6: with no queue and no tweet_text in shared_data, post_a_tweet run
\* against the package's registry returns the failure "No tweet content provided".
C6_NoContentScenario ==
    \A p \in Procs :
        /\ PackageRun(p) /\ proc[p].queue_at_start = <<>>
        /\ ~proc[p].shared_data.is_none /\ proc[p].shared_data.tweet_text = ""
        => /\ ~proc[p].result.success
           /\ proc[p].result.error = "No tweet content provided"

\* C7: after register_alias(a, b) with b registered, the lookups of a and of b
\* give the identical instance until a or b is registered again.
C7_AliasIdentity ==
    \A link \in alias_links :
        /\ Registered(link[1]) /\ Registered(link[2])
        /\ Lookup(link[1]) = Lookup(link[2])

\* An alias made after construction stands while another name was registered.
C7_Witness ==
    /\ <<"x_api_skill", "serper_api_skill">> \in alias_links
    /\ Lookup("x_api_skill") = SerperInst
    /\ Lookup("chat_skill") = SerperInst
    /\ next_instance > FirstFresh

\* C8 as stated: an execution in which a skill or memory call raised returns
\* a failure that carries the exception's message.
C8_Original ==
    \A p \in Procs :
        Finished(p) /\ proc[p].raised # {} =>
            /\ ~proc[p].result.success
            /\ proc[p].result.error \in proc[p].raised

\* The helper methods whose body is, or holds, a try block with an
\* `except Exception` that logs the exception and lets execute go on.
HandlingHelpers(activity) ==
    CASE activity = "fetch_news" ->
            {"_analyze_article_relevance", "_categorize_article",
             "_store_articles_in_memory", "_prepare_conversation_response",
             "_prepare_social_content"}
      [] activity = "promote" ->
            {"_fetch_new_articles", "_select_article_for_repost",
             "_generate_promotion_content"}
      [] activity = "post_linkedin" -> {"_update_share_queue"}
      [] activity = "caregiver_support" -> {"_get_recent_tweets"}
      [] OTHER -> {}

\* C8, amended: an exception that reaches the handler of execute gives the
\* failure with that exception's message; an exception is caught before it
\* only inside the try block of one of the helper methods listed, and every
\* exception a call raised either was caught there or reached the handler
\* of execute; so a success is returned only when every exception raised
\* was caught inside one of these helpers.
C8_BoundaryFailure ==
    \A p \in Procs :
        LET caught == {s[2] : s \in proc[p].swallowed} IN
        /\ proc[p].boundary_exc # NoError =>
              /\ Finished(p)
              /\ proc[p].result = error_result(proc[p].boundary_exc)
        /\ \A s \in proc[p].swallowed : s[1] \in HandlingHelpers(proc[p].activity)
        /\ proc[p].raised \subseteq caught \cup {proc[p].boundary_exc}
        /\ Finished(p) /\ proc[p].result.success => proc[p].raised \subseteq caught

\* A memory call raised and the handler of execute returned its message.
C8_Witness ==
    \E p \in Procs :
        /\ Finished(p) /\ proc[p].boundary_exc = "memory.store failed"
        /\ proc[p].raised = {"memory.store failed"}
        /\ proc[p].result.error = "memory.store failed"

\* The actions with an effect outside the process that cannot be taken back.
Publishing == {<<"action", "post_tweet">>, <<"action", "create_linkedin_post">>,
               <<"action", "search_news">>, <<"trigger", "fetch_news">>}

\* C9 as stated: an execution that returns the failure of a skill's
\* initialize() has called no skill action and written no memory before.
C9_Original ==
    \A p \in Procs :
        Finished(p) /\ proc[p].init_failed # "" =>
            /\ \A c \in proc[p].calls : c[1] \notin {"action", "trigger"}
            /\ proc[p].calls \cap MemoryWrites = {}

\* C9, amended: such an execution has written no memory, posted nothing,
\* searched no news and triggered no activity before.
C9_NoWriteBeforeInitFailure ==
    \A p \in Procs :
        Finished(p) /\ proc[p].init_failed # "" =>
            /\ proc[p].calls \cap Publishing = {}
            /\ proc[p].calls \cap MemoryWrites = {}

\* The Lite LLM skill failed to initialize after a chat completion and an
\* image generation of the same execution.
C9_Witness ==
    \E p \in Procs :
        /\ Finished(p) /\ proc[p].init_failed = "lite_llm_skill"
        /\ <<"action", "get_chat_completion">> \in proc[p].calls
        /\ <<"action", "generate_image">> \in proc[p].calls

\* C10 as stated: an activity that declines to act returns success with
\* data.skipped = True.
C10_Original ==
    \A p \in Procs :
        Finished(p) /\ proc[p].declined # "" =>
            proc[p].result.success /\ proc[p].result.data.skipped

\* C10, amended: an activity that declines to act returns success;
\* personalized_caregiver_support marks it with data.skipped = True,
\* promote_givecare_content with data.status = "no_action" and no skipped flag.
C10_DeclineIsSuccess ==
    \A p \in Procs :
        Finished(p) /\ proc[p].declined # "" =>
            /\ proc[p].result.success
            /\ proc[p].activity = "caregiver_support" =>
                  proc[p].result.data.skipped
            /\ proc[p].activity = "promote" =>
                  /\ proc[p].result.data.status = "no_action"
                  /\ ~proc[p].result.data.skipped

\* promote_givecare_content declined with a history whose articles are all
\* inside the repost interval or at the promotion cap.
C10_Witness ==
    \E p \in Procs :
        /\ Finished(p) /\ proc[p].activity = "promote"
        /\ proc[p].declined = "no_eligible"
        /\ Len(proc[p].promoted) = 2
        /\ proc[p].result.data.status = "no_action"

\* The failures of an external API: a non-2xx response or an exception of the
\* HTTP client in search_news, an exception of images.generate in generate_image.
ApiFailures == {<<"search_news", "API error">>,
                <<"generate_image", "images.generate failed">>}

\* The actions whose failure the calling activity checks and returns.
CheckedActions(activity) ==
    CASE activity = "post_a_tweet" -> {"post_tweet"}
      [] activity = "post_linkedin" ->
            {"get_company_info", "generate_image", "create_linkedin_post"}
      [] activity = "draw" -> {"generate_image"}
      [] OTHER -> {}

\* C11 as stated: an execution in which a skill action reported the failure
\* of its external API ends in a failure result.
C11_Original ==
    \A p \in Procs :
        Finished(p) /\ proc[p].failed \cap ApiFailures # {} => ~proc[p].result.success

\* C11, amended: a failed action ends in a failure result where the activity
\* checks the action's result (post_a_tweet, post_linkedin, draw); fetch_news,
\* promote_givecare_content and the personalized_* activities go on without
\* the failed action's product.
C11_CheckedFailure ==
    \A p \in Procs :
        /\ Finished(p)
        /\ \E f \in proc[p].failed : f[1] \in CheckedActions(proc[p].activity)
        => ~proc[p].result.success

\* images.generate raised and post_linkedin returned the failure.
C11_Witness ==
    \E p \in Procs :
        /\ Finished(p) /\ proc[p].activity = "post_linkedin"
        /\ <<"generate_image", "images.generate failed">> \in proc[p].failed
        /\ proc[p].result = error_result("Failed to generate image")

\* The package is being loaded and __init__ has returned.
Constructed == package \in {"export_chat", "export_image", "export_lite"}

\* C12: when the registration of a standard skill fails with an ImportError
\* or AttributeError (no other exception leaves register_skill_module), the
\* construction of the registry and the load of the skills package still
\* complete, the failed name stays unregistered and the names that did
\* register resolve.
C12_TolerantLoad ==
    /\ register_raised = "" => package # "failed"
    /\ Constructed =>
          /\ Registered("chat_skill") <=> "skill_chat" \in skill_modules
          /\ "skill_generate_image" \notin skill_modules
                => ~Registered("image_generation_skill")
          /\ Registered("image_generation_skill")
                <=> "image_generation_skill" \in stored_names
          /\ Registered("serper_api_skill") <=> "skill_serper_api" \in skill_modules

\* C13: in every state reached by register_skill_module and register_alias
\* calls, a name resolves exactly if a successful registration or alias
\* stored it; the lookup of any other name raises the "No skill named ..."
\* error; and a lookup leaves the registry as it was.
C13_LookupIffStored ==
    /\ [](/\ \A name \in RegNames : Registered(name) <=> name \in stored_names
          /\ last_lookup # NoLookup =>
                /\ last_lookup.ok <=> last_lookup.was_stored
                /\ last_lookup.ok => last_lookup.inst \in Instances
                /\ ~last_lookup.ok =>
                      /\ last_lookup.inst = NoInst
                      /\ last_lookup.error = NotRegisteredError(last_lookup.name))
    /\ [][last_lookup' # last_lookup =>
            UNCHANGED <<skill_modules, skill_instances, stored_names>>]_vars

\* The lookup of x_api_skill raised, and the name was registered afterwards.
C13_Witness ==
    /\ last_lookup.name = "x_api_skill" /\ ~last_lookup.ok
    /\ last_lookup.error = "No skill named 'x_api_skill' is registered"
    /\ Registered("x_api_skill")

\* C14: register_alias(alias, original) with original not registered leaves
\* the registry as it was: the entry of alias, present or absent, stays what
\* it was at the call for as long as the name alias is not stored again, also
\* after original has been registered; and the call itself changes nothing.
C14_FailedAliasNoEffect ==
    /\ [](\A f \in failed_aliases : Lookup(f[1]) = f[3])
    /\ [][failed_aliases' \ failed_aliases # {} =>
            UNCHANGED <<skill_modules, skill_instances, stored_names>>]_vars

\* An alias to the unregistered x_api_skill failed, x_api_skill was
\* registered afterwards, and the alias name still does not resolve.
C14_Witness ==
    /\ <<"ImageGenerationSkill", "x_api_skill", NoInst>> \in failed_aliases
    /\ Registered("x_api_skill")
    /\ ~Registered("ImageGenerationSkill")
    /\ GetAttr("ImageGenerationSkill").error =
          "No skill named 'ImageGenerationSkill' is registered"

(***************************************************************************)
(* The shape of the returned ActivityResult                                *)
(***************************************************************************)
\* C15: every ActivityResult returned by an execute is either a success with
\* a data payload and no error, or a failure with an error message and no data
\* payload; none carries both or neither.  An error that is None or the
\* empty string is no message.
C15_ResultShape ==
    \A p \in Procs :
        Finished(p) =>
            LET r == proc[p].result
            IN  \/ r.success /\ r.has_data /\ r.error = NoError
                \/ ~r.success /\ ~r.has_data /\ r.error \notin {NoError, ""}
(***************************************************************************)
(* The record of a completed caregiver support                             *)
(***************************************************************************)
\* Execution p of the caregiver support activity passed its check of
\* recent_tweets and returned a success that is not a skip.
CompletedSupport(p) ==
    /\ Finished(p) /\ proc[p].activity = "caregiver_support"
    /\ proc[p].result.success /\ proc[p].declined = ""

\* C16: when an execute of the caregiver support activity has passed its
\* check and completed successfully, a second execute started less than
\* min_time_between_posts later, whose read of recent_tweets succeeds, is
\* skipped.
C16_SecondSkipped ==
    (/\ CompletedSupport("p1")
     /\ proc["p2"].activity = "caregiver_support"
     /\ proc["p2"].pc # "caregiver_support:get_recent_tweets"
     /\ proc["p2"].raised = {}
     /\ proc["p2"].read_time - proc["p1"].read_time < min_time_between_posts)
    => (/\ Finished("p2")
        /\ proc["p2"].declined = "too_soon"
        /\ proc["p2"].result.data.skipped)

(***************************************************************************)
(* The order of social_share_queue                                         *)
(***************************************************************************)
\* Sequence head is the beginning of sequence whole.
StartsWith(whole, head) ==
    /\ Len(head) <= Len(whole)
    /\ \A i \in 1..Len(head) : whole[i] = head[i]

\* C17: an enqueue never removes or replaces the articles already in
\* social_share_queue: while and after fetch_news or promote_givecare_content
\* runs, the queue begins with the articles it held when the execution
\* started, in their order.
C17_EnqueueKeepsQueue ==
    \A p \in Procs :
        proc[p].activity \in {"fetch_news", "promote"} =>
            StartsWith(MemoryGet("social_share_queue"), proc[p].queue_at_start)

(***************************************************************************)
(* One image generation client per process                                 *)
(***************************************************************************)
\* C18: every activity that generates images operates on the instance the
\* registry holds as image_generation_skill, so that its generations_count
\* counts all generations: no other ImageGenerationSkill instance ever counts
\* a generation.
C18_SingleImageInstance ==
    \A inst \in ImageInstances :
        inst # Lookup("image_generation_skill") =>
            ImageState(inst).generations_count = 0

(***************************************************************************)
(* Who writes the fields of a skill                                        *)
(***************************************************************************)
\* What a method of ImageGenerationSkill can make of the fields st.
MethodResults(st) ==
    {ImageInitialize(st, key).st : key \in KeyOutcomes}
    \cup {generate_image(st, format, key, api).st :
             format \in supported_formats \cup {"gif"}, key \in KeyOutcomes,
             api \in ApiOutcomes}

\* C19 as stated: no activity writes a field of a skill directly.
C19_Original ==
    \A p \in Procs : proc[p].writes = {}

\* C19, amended: the one direct write of an activity is DrawActivity's
\* assignment image_generation_skill.enabled = True; it never changes the value
\* of the field, and whenever the fields of an ImageGenerationSkill do change,
\* the new values are what initialize or generate_image makes of the old ones.
C19_OnlyDrawEnables ==
    /\ [](\A p \in Procs :
            proc[p].writes \subseteq
                (IF proc[p].activity = "draw"
                 THEN {<<"image_generation_skill", "enabled">>} ELSE {}))
    /\ [][\A inst \in ImageInstances :
            skill_state'.image[inst] # skill_state.image[inst] =>
                skill_state'.image[inst] \in MethodResults(skill_state.image[inst])]_vars

\* DrawActivity has assigned enabled after a successful initialize and has
\* gone on to generate an image, which the skill counted.
C19_Witness ==
    \E p \in Procs :
        /\ proc[p].activity = "draw"
        /\ <<"image_generation_skill", "enabled">> \in proc[p].writes
        /\ ImageState(AdapterImage).enabled
        /\ ImageState(AdapterImage).generations_count = 1

(***************************************************************************)
(* Concurrent executions of PostTweetActivity                              *)
(***************************************************************************)
\* C20: two concurrent executions of PostTweetActivity.execute are not
\* isolated from each other.  An execution posts the head of the queue as it
\* read it and writes back the rest of what it read, whatever the other
\* execution has done to the key between the awaits; so both can read the
\* same head and both post it.
C20_StaleReadModifyWrite ==
    /\ [](\A p \in Procs :
            (proc[p].activity = "post_a_tweet" /\ proc[p].queue_before # <<>>
             /\ proc[p].posted # <<>>)
            => proc[p].posted = <<proc[p].queue_before[1]>>)
    /\ [][\A p \in Procs :
            (proc'[p].pc = "done" /\ proc'[p].result.success) =>
              /\ proc[p].pc = "post_a_tweet:store_queue" =>
                    /\ "social_share_queue" \in memory'.keys
                    /\ memory'.social_share_queue = Tail(proc[p].queue_before)
              /\ proc[p].pc = "post_a_tweet:delete_queue" =>
                    "social_share_queue" \notin memory'.keys]_vars

\* The queue held one article when both executions started; both have
\* returned a success after posting that article.
C20_Witness ==
    /\ Len(proc["p1"].queue_at_start) = 1
    /\ proc["p2"].queue_at_start = proc["p1"].queue_at_start
    /\ \A p \in Procs :
          /\ Finished(p) /\ proc[p].result.success
          /\ proc[p].result.data.type = "news"
          /\ proc[p].posted = <<proc["p1"].queue_at_start[1]>>
          /\ proc[p].result.data.article = proc["p1"].queue_at_start[1]

(***************************************************************************)
(* Independence of registrations                                           *)
(***************************************************************************)
\* A call of register_skill_module: its arguments, whether the import
\* succeeds, and what the constructor does where a constructor is run.
RegisterCalls ==
    {c \in RegisterInputs \X BOOLEAN \X ConstructOutcomes :
        \/ c[3] = "ok"
        \/ c[2] /\ c[1][4] = "config" /\ ModuleAttr(c[1][1], c[1][2]).kind = "class"}

\* _skill_instances after call c, which creates the object numbered fresh if
\* its attribute is a class.
AfterCall(reg, c, fresh) ==
    RegisterInstances(reg, c[1][1], c[1][2], c[1][3], c[1][4], c[2], c[3], fresh)

CallName(c) == StoredName(c[1][2], c[1][3])

\* The entry of a mapping under a name; NoInst for a name that is not a key.
Entry(reg, name) == IF name \in DOMAIN reg THEN reg[name] ELSE NoInst

\* C21: for two register_skill_module calls with different instance names,
\* made on any registry the program can be in, the resulting mapping is the
\* same whichever call runs first, and the entry a call leaves under its name
\* is the same whether the other call succeeded, failed or was not made.
C21_OrderIndependent ==
    \A a, b \in RegisterCalls :
        CallName(a) # CallName(b) =>
            LET fa == next_instance
                fb == next_instance + 1
                ab == AfterCall(AfterCall(skill_instances, a, fa), b, fb)
                ba == AfterCall(AfterCall(skill_instances, b, fb), a, fa)
                failed_a == <<a[1], FALSE, a[3]>>
                raised_a == <<<<a[1][1], a[1][2], a[1][3], "">>, TRUE, a[3]>>
            IN  /\ ab = ba
                /\ Entry(ab, CallName(b)) =
                      Entry(AfterCall(skill_instances, b, fb), CallName(b))
                /\ Entry(ab, CallName(b)) =
                      Entry(AfterCall(AfterCall(skill_instances, failed_a, fa), b, fb),
                            CallName(b))
                /\ Entry(ab, CallName(b)) =
                      Entry(AfterCall(AfterCall(skill_instances, raised_a, fa), b, fb),
                            CallName(b))

\* Two registrations under different names have both taken effect on the
\* registry: the X API skill and a second ImageGenerationSkill under the
\* name of its class.
C21_Witness ==
    /\ Lookup("x_api_skill") = XApiInst
    /\ Lookup("ImageGenerationSkill") \in ImageInstances
    /\ Lookup("image_generation_skill") \in ImageInstances
    /\ Lookup("ImageGenerationSkill") # Lookup("image_generation_skill")
    /\ Lookup("lite_llm_skill") = ChatInst /\ Lookup("chat_skill") = ChatInst

(***************************************************************************)
(* What an alias is bound to                                               *)
(***************************************************************************)
\* C22: an alias is bound to an instance, not to the original's name: after
\* register_alias(a, b) has created the alias, a resolves to the instance b
\* held at that call for as long as the name a is not stored again, also
\* after another instance has been registered under b.
C22_AliasBoundToInstance ==
    \A f \in bound_aliases : Lookup(f[1]) = f[3]

\* lite_llm_skill was made an alias of chat_skill, the serper instance was
\* then registered under chat_skill, and lite_llm_skill still resolves to the
\* chat instance.
C22_Witness ==
    /\ <<"lite_llm_skill", "chat_skill", ChatInst>> \in bound_aliases
    /\ Lookup("chat_skill") = SerperInst
    /\ Lookup("lite_llm_skill") = ChatInst

(***************************************************************************)
(* No second initialize() after a False                                    *)
(***************************************************************************)
\* lite_llm_skill is the alias of chat_skill: one skill under two names.
SkillOf(name) == IF name = "lite_llm_skill" THEN "chat_skill" ELSE name

\* The places of the executions whose next step awaits initialize() of a skill.
InitializePcs(skill) ==
    CASE skill = "chat_skill" ->
            {"caregiver_support:chat_initialize", "caregiver_support:lite_initialize",
             "checkin:chat_initialize", "checkin:lite_initialize",
             "emotional_support:chat_initialize", "emotional_support:lite_initialize",
             "emotional_checkins:chat_initialize",
             "fetch_news:relevance_initialize", "fetch_news:categorize_initialize",
             "promote:repost_initialize", "promote:content_initialize"}
      [] skill = "image_generation_skill" ->
            {"caregiver_support:image_initialize", "checkin:image_initialize",
             "emotional_support:image_initialize", "draw:initialize",
             "post_linkedin:image_initialize"}
      [] skill = "serper_api_skill" ->
            {"fetch_news:serper_initialize", "promote:serper_initialize"}
      [] skill = "x_api_skill" -> {"post_a_tweet:initialize"}
      [] OTHER -> {}

\* The initialize() calls made inside helper methods that catch and log:
\* _analyze_article_relevance and _categorize_article of fetch_news,
\* _select_article_for_repost and _generate_promotion_content of promote.
HelperInitializePcs ==
    {"fetch_news:relevance_initialize", "fetch_news:categorize_initialize",
     "promote:repost_initialize", "promote:content_initialize"}

\* In this step execution p awaits initialize() of a skill whose initialize()
\* has returned False earlier in the same execute.
InitializesAgain(p) ==
    /\ proc'[p] # proc[p]
    /\ \E name \in proc[p].init_false :
          /\ proc[p].pc \in InitializePcs(SkillOf(name))
          /\ SkillOf(name) \in {"chat_skill", "serper_api_skill", "x_api_skill"}
                => Registered(SkillOf(name))

\* C23 as stated: once a skill's initialize() has returned False, the
\* execution never awaits that skill's initialize() again.
C23_Original ==
    [][\A p \in Procs : ~InitializesAgain(p)]_vars

\* C23, amended: an execution whose own check of initialize() got False has
\* returned and makes no further call; initialize() of a skill is awaited
\* again after a False only by the helper methods of fetch_news and promote,
\* which call chat_skill.initialize() at each of their invocations.
C23_NoRetryOutsideHelpers ==
    /\ [](\A p \in Procs : proc[p].init_failed # "" => Finished(p))
    /\ [][\A p \in Procs :
            InitializesAgain(p) => proc[p].pc \in HelperInitializePcs]_vars

\* fetch_news: chat_skill.initialize() returned False in a helper, and a later
\* helper call awaited it again and got True.
C23_Witness ==
    \E p \in Procs :
        /\ proc[p].activity = "fetch_news"
        /\ "chat_skill" \in proc[p].init_false
        /\ proc[p].pc = "fetch_news:categorize_completion"

(***************************************************************************)
(* The interval between promotions of an article                           *)
(***************************************************************************)
\* The time of the most recent promotion a record of
\* givecare_promoted_articles tells of.
LastPromotion(r) ==
    IF r.last_promoted_at > r.first_promoted_at THEN r.last_promoted_at
                                                 ELSE r.first_promoted_at

\* Execution p of promote_givecare_content has selected an article for repost
\* and has not yet updated the history it read.
SelectedForRepost(p) ==
    /\ proc[p].activity = "promote"
    /\ proc[p].promotion_type = "repost"
    /\ proc[p].pc \in {"promote:content_initialize", "promote:content_completion",
                       "promote:queue"}

\* C24: an article is selected for repost only if at least min_repost_interval
\* has passed since its most recent promotion, be it the first one as new
\* content or an earlier repost.
C24_RepostInterval ==
    \A p \in Procs :
        SelectedForRepost(p) =>
            \A i \in DOMAIN proc[p].promoted :
                proc[p].promoted[i].url = proc[p].article.url =>
                    now - LastPromotion(proc[p].promoted[i]) >= min_repost_interval

(***************************************************************************)
(* A sequence of executions of PromoteGiveCareContentActivity              *)
(***************************************************************************)
\* The framework calls execute(shared_data) of the promotion activity once
\* the execution before it has returned.  The ghost field queued keeps what
\* the executions so far have queued, memory_failed whether a memory
\* operation of one of them raised.  The sequence is bounded by what it has
\* queued, not by its length, and is followed for one execution after an
\* execution in which a memory operation failed.
TotalQueued(p) ==
    LET sum[i \in 0..NumArticles] ==
            IF i = 0 THEN 0
            ELSE sum[i - 1] + proc[p].queued[<<Urls[i], "new">>]
                            + proc[p].queued[<<Urls[i], "repost">>]
    IN  sum[NumArticles]

PromoteSeq_Start(p) ==
    /\ TotalQueued(p) < MaxQueued
    /\ ~proc[p].memory_failed
    /\ \A q \in Procs : proc[q].pc \in {"idle", "done"}
    /\ proc' = [proc EXCEPT ![p] =
          [Idle EXCEPT !.pc = FirstPc("promote"),
                       !.activity = "promote",
                       !.shared_data = NoneData,
                       !.queue_at_start = MemoryGet("social_share_queue"),
                       !.queued = proc[p].queued,
                       !.memory_failed =
                           \/ proc[p].memory_failed
                           \/ proc[p].raised \cap {"memory.get failed",
                                                   "memory.store failed"} # {}]]
    /\ Frame_Registry /\ UNCHANGED <<skill_state, memory, now, runs>>

\* A repost interval passes between two executions.
Week ==
    /\ now < StartTime + MaxWeeks * min_repost_interval
    /\ \A q \in Procs : proc[q].pc \in {"idle", "done"}
    /\ now' = now + min_repost_interval
    /\ Frame_Registry /\ UNCHANGED <<skill_state, memory, proc, runs>>

\* The store is empty when the first execution starts.
InitPromote ==
    /\ Init
    /\ memory = EmptyMemory

NextPromote ==
    \/ PromoteSeq_Start("p1")
    \/ Promote("p1")
    \/ Week

SpecPromote == InitPromote /\ [][NextPromote]_vars

\* How often the executions so far have queued the article of a url.
TimesQueued(p, url) ==
    proc[p].queued[<<url, "new">>] + proc[p].queued[<<url, "repost">>]

NoMemoryFailure(p) ==
    /\ ~proc[p].memory_failed
    /\ proc[p].raised \cap {"memory.get failed", "memory.store failed"} = {}

\* C25: over a sequence of executions of the promotion activity that follow
\* one another and in which no memory operation fails, no article is queued
\* for social sharing more than 5 times: once as new and at most 4 times as a
\* repost.
C25_AtMostFivePromotions ==
    \A p \in Procs :
        NoMemoryFailure(p) =>
            \A u \in {Urls[i] : i \in ArticleIds} :
                /\ TimesQueued(p, u) <= max_promotions
                /\ proc[p].queued[<<u, "new">>] <= 1
                /\ proc[p].queued[<<u, "repost">>] <= max_promotions - 1

\* The fifth promotion of an article has been queued and recorded, and a later
\* execution found nothing to repost.
C25_Witness ==
    /\ NoMemoryFailure("p1")
    /\ TimesQueued("p1", Urls[1]) = max_promotions
    /\ proc["p1"].pc = "done"
    /\ proc["p1"].declined = "no_eligible"

\* No two records of the stored promotion history have the same url.
DistinctUrls(promoted_articles) ==
    \A i, j \in DOMAIN promoted_articles :
        promoted_articles[i].url = promoted_articles[j].url => i = j

\* C30 as stated: over a sequence of executions of the promotion activity
\* that follow one another, an article url is promoted as "new" at most once
\* and givecare_promoted_articles never holds two records of one url.
C30_Original ==
    /\ \A p \in Procs : \A i \in ArticleIds : proc[p].queued[<<Urls[i], "new">>] <= 1
    /\ DistinctUrls(MemoryGet("givecare_promoted_articles"))

(***************************************************************************)
(* Calls of generate_image on one ImageGenerationSkill instance            *)
(***************************************************************************)
\* The instance when a call arrives: as constructed, or initialized, enabled
\* or not by its configuration, with no generation yet, one below the limit
\* or at the limit; a later initialize() without a key has cleared _api_key.
ImageSkillStates ==
    {[NewImageSkill EXCEPT !.enabled = e]  : e \in BOOLEAN}
    \cup {[NewImageSkill EXCEPT !.enabled = e, !.initialized = TRUE, !.api_key = k,
                                !.generations_count = n] :
             e \in BOOLEAN, k \in BOOLEAN,
             n \in {0, max_generations_per_day - 1, max_generations_per_day}}

ImageFormats == {"png", "bmp"}
EarlyErrors == {"Image generation skill not initialized",
                "Image generation is not available (disabled, limit reached, or not configured)",
                "Unsupported format. Use: ['png', 'jpg']", "str expected, not NoneType"}

\* A caller awaits generate_image(prompt, format=...) on the instance: the
\* call runs up to `await loop.run_in_executor(...)` or returns a failure
\* before it, or, the skill not being initialized, up to the await of
\* get_api_key in initialize().
Image_Call(p) ==
    /\ runs < MaxCalls
    /\ proc[p].pc \in {"idle", "done"}
    /\ \E format \in ImageFormats :
         LET st == ImageState(RegistryImage)
             r == generate_image_checks(st, format)
             c == Called([Idle EXCEPT !.activity = "generate_image",
                                      !.format = format],
                         <<"action", "generate_image">>) IN
         proc' = [proc EXCEPT ![p] =
               IF ~st.initialized THEN [c EXCEPT !.pc = "generate_image:get_api_key"]
               ELSE IF ~r.proceeds
               THEN [ActionFailed(c, "generate_image", r.error) EXCEPT !.pc = "done"]
               ELSE [c EXCEPT !.pc = "generate_image:response"]]
    /\ runs' = runs + 1
    /\ Frame_Registry /\ UNCHANGED <<skill_state, memory, now>>

\* get_api_key answers the initialize() of a call: the key is stored, also
\* when it is None, and the call goes on to the executor await or returns a
\* failure.
Image_Key(p) ==
    /\ proc[p].pc = "generate_image:get_api_key"
    /\ \E key \in KeyOutcomes :
         LET r == generate_image_key(ImageState(RegistryImage), proc[p].format, key) IN
         /\ skill_state' = SetImage(RegistryImage, r.st)
         /\ proc' = [proc EXCEPT ![p] =
               IF ~r.proceeds
               THEN [ActionFailed(@, "generate_image", r.error) EXCEPT !.pc = "done"]
               ELSE [@ EXCEPT !.pc = "generate_image:response"]]
    /\ Frame_Registry /\ UNCHANGED <<memory, now, runs>>

\* The response of client.images.generate arrives: the counter moves and the
\* call returns the image, or the except clause returns the failure.
Image_Response(p) ==
    /\ proc[p].pc = "generate_image:response"
    /\ \E api \in ApiOutcomes :
         LET r == generate_image_response(ImageState(RegistryImage), api) IN
         /\ skill_state' = SetImage(RegistryImage, r.st)
         /\ proc' = [proc EXCEPT ![p] =
               IF r.success THEN [@ EXCEPT !.pc = "done", !.image_url = r.url]
               ELSE [ActionFailed(@, "generate_image", r.error) EXCEPT !.pc = "done"]]
    /\ Frame_Registry /\ UNCHANGED <<memory, now, runs>>

\* reset_counts() is called on the instance.
Image_ResetCounts ==
    /\ ImageState(RegistryImage).generations_count > 0
    /\ skill_state' = SetImage(RegistryImage, reset_counts(ImageState(RegistryImage)))
    /\ Frame_Registry /\ UNCHANGED <<memory, now, proc, runs>>

InitImage ==
    /\ package = "loaded"
    /\ stored_names = InitialNames
    /\ last_lookup = NoLookup
    /\ failed_aliases = {}
    /\ bound_aliases = {}
    /\ register_raised = ""
    /\ skill_modules = {"skill_chat", "skill_generate_image", "skill_serper_api"}
    /\ skill_instances = InitialRegistry
    /\ next_instance = FirstFresh
    /\ alias_links = {<<"lite_llm_skill", "chat_skill">>}
    /\ \E st \in ImageSkillStates :
          skill_state = [serper_initialized |-> FALSE,
                         image |-> [i \in ImageInstances |->
                                      IF i = RegistryImage THEN st ELSE NewImageSkill]]
    /\ memory = EmptyMemory
    /\ now = StartTime
    /\ proc = [p \in Procs |-> Idle]
    /\ runs = 0

NextImage ==
    \/ Image_Call("p1")
    \/ Image_Key("p1")
    \/ Image_Response("p1")
    \/ Image_Call("p2")
    \/ Image_Key("p2")
    \/ Image_Response("p2")
    \/ Image_ResetCounts

SpecImage == InitImage /\ [][NextImage]_vars

\* The generations_count of the instance the calls are made on.
Count == ImageState(RegistryImage).generations_count
\* Execution p's call has returned success / a failure in this step.
ReturnsImage(p) ==
    /\ proc[p].pc = "generate_image:response"
    /\ proc'[p].pc = "done"
    /\ proc'[p].image_url = "generated"
ReturnsFailure(p) ==
    /\ proc'[p].pc = "done"
    /\ \E e \in EarlyErrors \cup {"images.generate failed"} :
         <<"generate_image", e>> \in proc'[p].failed
    /\ proc'[p] # proc[p]

\* C26: generate_image adds exactly 1 to generations_count when it returns
\* success, and leaves generations_count as it is on every failure return:
\* not initialized, disabled, limit reached, unsupported format, exception of
\* the API call.  Stated of the call as a whole for every input, and of the
\* steps of calls that overlap.
C26_CountOnlyOnSuccess ==
    /\ [](\A format \in ImageFormats, key \in KeyOutcomes, api \in ApiOutcomes :
            LET r == generate_image(ImageState(RegistryImage), format, key, api) IN
            r.st.generations_count = Count + (IF r.success THEN 1 ELSE 0))
    /\ [][\A p \in Procs :
            /\ ReturnsImage(p) =>
                  ImageState(RegistryImage)'.generations_count = Count + 1
            /\ ReturnsFailure(p) =>
                  ImageState(RegistryImage)'.generations_count = Count]_vars

\* One call returned an image and moved the counter to the limit, the other
\* was refused at the limit and left it there.
C26_Witness ==
    /\ proc["p1"].pc = "done" /\ proc["p1"].image_url = "generated"
    /\ proc["p2"].pc = "done"
    /\ <<"generate_image", "Image generation is not available (disabled, limit reached, or not configured)">>
          \in proc["p2"].failed
    /\ Count = max_generations_per_day

\* C27: on one instance generations_count never exceeds max_generations,
\* whatever the interleaving of the generate_image calls on it.
C27_WithinLimit ==
    \A i \in ImageInstances :
        ImageState(i).generations_count <= ImageState(i).max_generations

(***************************************************************************)
(* PostLinkedInActivity while PostTweetActivity runs                       *)
(***************************************************************************)
\* The framework calls execute(shared_data) of an activity while the
\* execution of another may be suspended at an await.
Share_Start(p, activity) ==
    /\ proc[p].pc = "idle"
    /\ \E shared_data \in SharedInputs(activity) :
         proc' = [proc EXCEPT ![p] =
                    [Idle EXCEPT !.pc = FirstPc(activity),
                                 !.activity = activity,
                                 !.shared_data = shared_data,
                                 !.queue_at_start = MemoryGet("social_share_queue")]]
    /\ runs' = runs + 1
    /\ Frame_Registry /\ UNCHANGED <<skill_state, memory, now>>

\* The store holds a queue of one or of two articles.
InitShare ==
    /\ Init
    /\ memory.keys = {"social_share_queue"}

NextShare ==
    \/ RegisterXApi
    \/ Share_Start("p1", "post_linkedin")
    \/ Share_Start("p2", "post_a_tweet")
    \/ LinkedIn("p1")
    \/ PostTweet("p2")

SpecShare == InitShare /\ [][NextShare]_vars

\* Execution p of post_linkedin has read the queue again in
\* _update_share_queue and is about to write it back without its head.
RemovesHead(p) ==
    /\ proc[p].activity = "post_linkedin"
    /\ proc[p].pc \in {"post_linkedin:update_store", "post_linkedin:update_delete"}

\* C28 as stated: the article _update_share_queue removes is the article
\* _get_content_to_share returned and execute posted, also when another
\* activity writes social_share_queue between the two reads.
C28_Original ==
    \A p \in Procs :
        RemovesHead(p) =>
            /\ proc[p].posted = <<proc[p].article>>
            /\ Head(proc[p].queue_before) = proc[p].article

\* C28: _update_share_queue removes the head of the queue as it reads it
\* after the post.  That head is the article _get_content_to_share returned
\* and execute posted when the queue is then what it was at the first read;
\* when another activity has written social_share_queue in between, the
\* article removed is whatever is at the head by then.
C28_RemovesHeadOfSecondRead ==
    \A p \in Procs :
        RemovesHead(p) =>
            /\ proc[p].posted = <<proc[p].article>>
            /\ proc[p].queue = Tail(proc[p].queue_before)
            /\ proc[p].queue_before = proc[p].queue_read =>
                   Head(proc[p].queue_before) = proc[p].article

\* The queue was not touched between the reads and the posted article is
\* about to leave it, while the other activity is still running.
C28_Witness ==
    /\ RemovesHead("p1")
    /\ proc["p1"].queue_before = proc["p1"].queue_read
    /\ Len(proc["p1"].queue_read) = 2
    /\ Head(proc["p1"].queue_before) = proc["p1"].article
    /\ proc["p2"].pc \notin {"idle", "done"}

\* Execution p of post_a_tweet found an article queued and its post_tweet
\* call returned success false.
NewsPostFailed(p) ==
    /\ proc[p].activity = "post_a_tweet"
    /\ proc[p].queue_before # <<>>
    /\ <<"post_tweet", "error">> \in proc[p].failed

\* C29: an execution of post_a_tweet that finds social_share_queue non-empty
\* and whose post_tweet call returns success false returns a failure result,
\* performs no memory store or delete, leaves the queue as it read it and
\* does not go on to post shared_data.tweet_text; the execution changes the
\* queue only after it has posted an article.
C29_FailedPostLeavesQueue ==
    /\ [](\A p \in Procs :
            NewsPostFailed(p) =>
                /\ Finished(p)
                /\ ~proc[p].result.success
                /\ proc[p].result.error = "Failed to post tweet: error"
                /\ proc[p].calls \cap MemoryWrites = {}
                /\ proc[p].posted = <<>>
                /\ MemoryGet("social_share_queue") = proc[p].queue_before)
    /\ [][\A p \in Procs :
            (/\ proc[p].activity = "post_a_tweet"
             /\ proc[p].pc \notin {"idle", "done"}
             /\ MemoryGet("social_share_queue")' # MemoryGet("social_share_queue"))
            => proc[p].posted = <<Head(proc[p].queue_before)>>]_vars

\* An article was queued and a tweet text was given; the post of the article
\* failed and the execution has returned.
C29_Witness ==
    /\ NewsPostFailed("p1")
    /\ Finished("p1")
    /\ proc["p1"].shared_data.tweet_text = "hello"
    /\ Len(MemoryGet("social_share_queue")) = 2

====
